---- MODULE Spec2Model ----
(***************************************************************************)
(* A model of the grel chat daemon (src/bin/greld.rs) with the User        *)
(* (src/user.rs) and Room (src/room.rs) structures it drives.              *)
(*                                                                         *)
(* One behaviour is one run of the server: the listener thread hands new   *)
(* users over a channel; the main loop snapshots the room ids, runs        *)
(* process_room on every room (one member at a time), reaps the room if it *)
(* is empty, and finally admits at most one waiting user.                  *)
(*                                                                         *)
(* Names are sequences of one-character strings, so that ascollapse() can  *)
(* be computed the way the code computes it.  Time is in milliseconds.     *)
(***************************************************************************)
EXTENDS Integers, Sequences, FiniteSets, TLC

VARIABLES
    umap,          \* user_map: HashMap<u64, User>          (users_by_id)
    ustr,          \* ustr_map: HashMap<String, u64>        (users_by_name)
    rmap,          \* room_map: HashMap<u64, Room>          (rooms_by_id)
    rstr,          \* rstr_map: HashMap<String, u64>        (rooms_by_name)
    pc,            \* where the main loop stands
    now,           \* `now` of main(): the Instant taken at the top of the tick
    roomz,         \* room ids of this tick's snapshot not yet processed
    rid,           \* the room process_room() is running on
    uid_list,      \* the rest of process_room()'s member snapshot
    logouts,       \* process_room()'s list of idle users
    new_user_id,   \* the listener's id counter
    chan,          \* the mpsc channel from listen() to main()
    ev,            \* history: what the last step dispatched
    tick_kicks,    \* history: <<room, target, n>> of the Kicks of this tick,
                   \*          n the times the op stood in the room's users
    idle_fired,    \* history: users the idle-kick fired for in this tick
    errs_at_start, \* history: users that had errors when this tick started
    throttle,      \* history: throttling notices delivered to each user
    envz,          \* process_room()'s envelopes of the call now running
    dlog,          \* history: the envelopes the last delivery phase took,
                   \*          in the order it took them
    sent,          \* history: <<user, envelope>> in the order the last
                   \*          delivery phase put them on the users' sockets
    thesock,       \* the Sock of the user the socket specification follows
    wire,          \* that user's connection: the bytes the client has
                   \*          written and the server has not read, with the
                   \*          history of what was sent and decoded and of
                   \*          the last call on the socket
    turns,         \* history: for each user the turns it had in this tick
                   \*          (drained) and the messages of it that were
                   \*          dispatched, where a specification counts them
    watch          \* history: for each user the idle-kick Logout messages
                   \*          and leave notices made for it so far and the
                   \*          time its last message was decoded, where a
                   \*          specification keeps them

vars == << umap, ustr, rmap, rstr, pc, now, roomz, rid, uid_list, logouts,
           new_user_id, chan, ev, tick_kicks, idle_fired, errs_at_start,
           throttle, envz, dlog, sent, thesock, wire,
           turns, watch >>

(***************************************************************************)
(* Bounds of the model.                                                    *)
(***************************************************************************)
MaxUsers == 2        \* connections the listener accepts
MaxTime == 30000     \* the clock stops advancing here
MaxErrs == 1         \* socket errors accumulated per user
MaxQuota == 1100     \* a client stops sending when its quota would pass this
MaxNotices == 3      \* a client stops sending after this many throttle notices
MaxMembers == 2      \* no message is sent that makes a member list longer
QuotaUsers == 1      \* connections accepted where throttling is examined
PairUsers == 4       \* users where Block and Unblock are examined in pairs
MaxFrames == 2         \* messages a client writes to the frame socket
MaxSendBuff == 6       \* bytes queued on the frame socket's send buffer
MaxKicks == 2          \* idle-kick messages counted for one user

(***************************************************************************)
(* Program constants.                                                      *)
(***************************************************************************)
FIRST_USER_ID == 100
BYTE_LIMIT == 512
BYTE_TICK == 6
BLACKOUT_TO_PING == 10000
BLACKOUT_TO_KICK == 20000
ROSTER_WIDTH == 24
LOBBY_NAME == << "L", "o", "b", "b", "y" >>

(***************************************************************************)
(* HashMap and Vec helpers.                                                *)
(***************************************************************************)
EmptyMap == [x \in {} |-> 0]
MapInsert(m, k, v) == [x \in DOMAIN m \cup {k} |-> IF x = k THEN v ELSE m[x]]
MapRemove(m, k) == [x \in DOMAIN m \ {k} |-> m[x]]
Contains(v, x) == \E i \in 1..Len(v) : v[i] = x
Retain(v, x) == SelectSeq(v, LAMBDA n : n # x)
Occurrences(v, x) == Cardinality({ i \in 1..Len(v) : v[i] = x })
Range(v) == { v[i] : i \in 1..Len(v) }

(***************************************************************************)
(* Name normalisation: user.rs ascollapse().                               *)
(***************************************************************************)
to_lowercase(c) ==
    CASE c = "A" -> "a"
      [] c = "B" -> "b"
      [] c = "L" -> "l"
      [] c = "N" -> "n"
      [] c = "R" -> "r"
      [] OTHER -> c

is_whitespace(c) == c = " "

\* The diacritics table of unidata.rs: character |-> base character.
UNIDATA == [c \in {"e'"} |-> "e"]

ascollapse(s) ==
    LET low == [i \in 1..Len(s) |-> to_lowercase(s[i])]
        kept == SelectSeq(low, LAMBDA c : ~ is_whitespace(c))
    IN  [i \in 1..Len(kept) |->
            IF kept[i] \in DOMAIN UNIDATA THEN UNIDATA[kept[i]] ELSE kept[i]]

\* str::len(): the length in bytes ("e'" stands for a two-byte character).
RECURSIVE byte_len(_)
byte_len(s) ==
    IF s = << >> THEN 0
    ELSE (IF Head(s) = "e'" THEN 2 ELSE 1) + byte_len(Tail(s))

DigitChar == << "0", "1", "2", "3", "4", "5", "6", "7", "8", "9" >>

RECURSIVE Digits(_)
Digits(n) ==
    IF n < 10 THEN << DigitChar[n + 1] >>
    ELSE Digits(n \div 10) \o << DigitChar[(n % 10) + 1] >>

\* format!("user{}", n)
user_n(n) == << "u", "s", "e", "r" >> \o Digits(n)

(***************************************************************************)
(* user.rs: the User.                                                      *)
(***************************************************************************)
User_new(new_idn, t) ==
    [ idn |-> new_idn,
      name |-> user_n(new_idn),
      idstr |-> ascollapse(user_n(new_idn)),
      quota_bytes |-> 0,
      last_data_time |-> t,
      errs |-> 0,
      blocks |-> << >> ]

set_name(u, new_name) ==
    [u EXCEPT !.name = new_name, !.idstr = ascollapse(new_name)]

drain_byte_quota(u, amount) ==
    [u EXCEPT !.quota_bytes = IF amount > @ THEN 0 ELSE @ - amount]

has_errors(u) == u.errs > 0

\* Vec::binary_search on the sorted block list: the insertion point of id.
insertion_point(blocks, id) ==
    Cardinality({ i \in 1..Len(blocks) : blocks[i] < id }) + 1

block_id(u, id) ==
    IF Contains(u.blocks, id) THEN u
    ELSE LET n == insertion_point(u.blocks, id)
         IN  [u EXCEPT !.blocks = SubSeq(@, 1, n - 1) \o << id >>
                                    \o SubSeq(@, n, Len(@))]

\* unblock_id() that finds nothing to remove.
unblock_id_keep(u, id) == u
unblock_id(u, id) ==
    IF ~ Contains(u.blocks, id) THEN u
    ELSE LET n == insertion_point(u.blocks, id)
         IN  [u EXCEPT !.blocks = SubSeq(@, 1, n - 1) \o SubSeq(@, n + 1, Len(@))]

(***************************************************************************)
(* What one call of User::try_get() can do.  The bytes on the wire are the *)
(* client's choice, so the outcome is an input of the step:                *)
(*   "err"      suck() or the decoder fails: the error is pushed on errs   *)
(*   "empty"    nothing read and nothing buffered                          *)
(*   "partial"  bytes buffered that do not yet make a message              *)
(*   "msg"      a message of n bytes is decoded                            *)
(***************************************************************************)
counts(m) == m.type \in {"Text", "Priv", "Name", "Join"}

try_get(u, r, t) ==
    CASE r.res = "err"     -> [u EXCEPT !.errs = @ + 1]
      [] r.res = "empty"   -> u
      [] r.res = "partial" -> [u EXCEPT !.last_data_time = t]
      [] r.res = "msg"     ->
            [u EXCEPT !.last_data_time = t,
                      !.quota_bytes = IF counts(r.msg) THEN @ + r.n ELSE @]

(***************************************************************************)
(* sock.rs: the Sock.  A Sock is modelled by its two byte buffers; a byte  *)
(* is a one-character string.  The TcpStream is the environment: a read or *)
(* a write ends in one of                                                  *)
(*   [kind |-> "Ok", n |-> k, flush |-> b]   k bytes moved; b: flush() ok  *)
(*   [kind |-> "WouldBlock"]   [kind |-> "Interrupted"]   [kind |-> "Other"]*)
(***************************************************************************)
NEWLINE == "\n"
QUOTE == "\""
SPACE == " "

Sock_new == [ current |-> << >>, send_buff |-> << >> ]

\* Sndr::bytes(): serde_json::to_vec_pretty of an externally tagged enum.
\* A unit variant is a JSON string, a newtype variant an object of one key
\* written over three lines with an indent of two spaces.
bytes(m) ==
    IF m.type = "Ping" THEN << QUOTE, "P", QUOTE >>
    ELSE << "{", NEWLINE, SPACE, SPACE, QUOTE, "N", QUOTE, ":", SPACE, QUOTE >>
         \o m.name \o << QUOTE, NEWLINE, "}" >>

\* The messages a client of the frame socket sends.
SockMsgs == { [type |-> "Ping", name |-> << >>],
              [type |-> "Name", name |-> << "a" >>],
              [type |-> "Name", name |-> << "}" >>] }

IsWs(b) == b \in {SPACE, NEWLINE}
Squash(dat) == SelectSeq(dat, LAMBDA b : ~IsWs(b))

RECURSIVE skip_ws(_, _)
skip_ws(dat, i) ==
    IF i <= Len(dat) /\ IsWs(dat[i]) THEN skip_ws(dat, i + 1) ELSE i

\* The index after the closing quote of the string whose first byte is at
\* i; 0 when the input ends inside the string.
RECURSIVE parse_str(_, _)
parse_str(dat, i) ==
    IF i > Len(dat) THEN 0
    ELSE IF dat[i] = QUOTE THEN i + 1
    ELSE parse_str(dat, i + 1)

\* One JSON value from index i0 on: "ok" with the index after it, "eof"
\* when the input ends inside it, "syntax" with the index of the byte that
\* cannot stand there.
RECURSIVE parse_value(_, _)
parse_value(dat, i0) ==
    LET i == skip_ws(dat, i0)
        eof == [kind |-> "eof", at |-> Len(dat) + 1]
    IN  IF i > Len(dat) THEN eof
        ELSE IF dat[i] = QUOTE
        THEN LET j == parse_str(dat, i + 1)
             IN  IF j = 0 THEN eof ELSE [kind |-> "ok", at |-> j]
        ELSE IF dat[i] = "{"
        THEN LET k == skip_ws(dat, i + 1)
             IN  IF k > Len(dat) THEN eof
                 ELSE IF dat[k] # QUOTE THEN [kind |-> "syntax", at |-> k]
                 ELSE LET k2 == parse_str(dat, k + 1)
                          c == skip_ws(dat, k2)
                      IN  IF k2 = 0 \/ c > Len(dat) THEN eof
                          ELSE IF dat[c] # ":"
                          THEN [kind |-> "syntax", at |-> c]
                          ELSE LET v == parse_value(dat, c + 1)
                                   e == skip_ws(dat, v.at)
                               IN  IF v.kind # "ok" THEN v
                                   ELSE IF e > Len(dat) THEN eof
                                   ELSE IF dat[e] # "}"
                                   THEN [kind |-> "syntax", at |-> e]
                                   ELSE [kind |-> "ok", at |-> e + 1]
        ELSE [kind |-> "syntax", at |-> i]

\* serde_json's position of the first i bytes: the line is one-based, the
\* column is the number of bytes since the last newline.
position_of_index(dat, i) ==
    LET nl == { j \in 1..i : dat[j] = NEWLINE }
        last == IF nl = {} THEN 0 ELSE CHOOSE j \in nl : \A k \in nl : k <= j
    IN  [line |-> 1 + Cardinality(nl), column |-> i - last]

\* serde_json::from_slice::<Rcvr>(dat): one value, then only whitespace
\* (anything else is the Syntax error "trailing characters", reported at
\* the position of the first such byte).
from_slice(dat) ==
    LET v == parse_value(dat, 1)
        e == skip_ws(dat, v.at)
        Fail(k, at) == [kind |-> k, msg |-> [type |-> "", name |-> << >>],
                        line |-> position_of_index(dat, at).line,
                        column |-> position_of_index(dat, at).column]
        ms == { m \in SockMsgs : Squash(bytes(m)) = Squash(dat) }
    IN  IF v.kind = "eof" THEN Fail("eof", Len(dat))
        ELSE IF v.kind = "syntax" THEN Fail("syntax", v.at)
        ELSE IF e <= Len(dat) THEN Fail("syntax", e)
        ELSE IF ms = {} THEN Fail("data", Len(dat))
        ELSE [kind |-> "ok", msg |-> CHOOSE m \in ms : TRUE,
              line |-> 0, column |-> 0]

\* get_actual_offset(): -1 stands for Err("Overran buffer ...").
RECURSIVE get_actual_offset_loop(_, _, _, _, _)
get_actual_offset_loop(dat, line, col, line_n, n) ==
    IF line_n < line
    THEN IF n >= Len(dat) THEN -1
         ELSE get_actual_offset_loop(dat, line, col,
                  IF dat[n + 1] = NEWLINE THEN line_n + 1 ELSE line_n, n + 1)
    ELSE n + col

get_actual_offset_flat(dat, e) == e.column - 1

get_actual_offset(dat, e) ==
    get_actual_offset_loop(dat, e.line - 1, e.column - 1, 0, 0)

\* Sock::suck(): res is what TcpStream::read made of the bytes `stream`
\* that are waiting on the connection.
suck(s, res, stream) ==
    CASE res.kind \in {"WouldBlock", "Interrupted"} ->
             [sock |-> s, ok |-> TRUE, n |-> 0]
      [] res.kind = "Ok" ->
             [sock |-> IF res.n > 0
                       THEN [s EXCEPT !.current = @ \o SubSeq(stream, 1, res.n)]
                       ELSE s,
              ok |-> TRUE, n |-> res.n]
      [] OTHER -> [sock |-> s, ok |-> FALSE, n |-> 0]

\* Sock::try_get(): res is "some" (with msg), "none", "err", or "panic"
\* for the unwrap() of an overrun and for a slice past the buffer's end.
Sock_try_get(s) ==
    LET none == [type |-> "", name |-> << >>]
        m == from_slice(s.current)
        offs == get_actual_offset(s.current, m)
        m2 == from_slice(SubSeq(s.current, 1, offs))
    IN  CASE m.kind = "ok" ->
                 [sock |-> [s EXCEPT !.current = << >>],
                  res |-> "some", msg |-> m.msg]
          [] m.kind = "eof" -> [sock |-> s, res |-> "none", msg |-> none]
          [] m.kind = "syntax" ->
                 IF offs < 0 \/ offs > Len(s.current)
                 THEN [sock |-> s, res |-> "panic", msg |-> none]
                 ELSE IF m2.kind = "ok"
                 THEN [sock |-> [s EXCEPT !.current =
                                    SubSeq(@, offs + 1, Len(@))],
                       res |-> "some", msg |-> m2.msg]
                 ELSE [sock |-> s, res |-> "err", msg |-> none]
          [] OTHER -> [sock |-> s, res |-> "err", msg |-> none]

\* Sock::enqueue()
Sock_enqueue(s, data) == [s EXCEPT !.send_buff = @ \o data]

\* Sock::blow(): res is what TcpStream::write made of send_buff; n is the
\* number of bytes left in the buffer.
blow(s, res) ==
    CASE res.kind = "Interrupted" ->
             [sock |-> s, ok |-> TRUE, n |-> Len(s.send_buff)]
      [] res.kind = "Ok" ->
             IF res.n = Len(s.send_buff)
             THEN IF res.flush
                  THEN [sock |-> [s EXCEPT !.send_buff = << >>],
                        ok |-> TRUE, n |-> 0]
                  ELSE [sock |-> s, ok |-> FALSE, n |-> 0]
             ELSE [sock |-> [s EXCEPT !.send_buff =
                                SubSeq(@, res.n + 1, Len(@))],
                   ok |-> TRUE, n |-> Len(s.send_buff) - res.n]
      [] OTHER -> [sock |-> s, ok |-> FALSE, n |-> 0]

\* User::nudge() of a user u whose socket is s.
nudge(u, s, res) ==
    IF Len(s.send_buff) > 0
    THEN LET r == blow(s, res)
         IN  [u |-> IF r.ok THEN u ELSE [u EXCEPT !.errs = @ + 1],
              sock |-> r.sock]
    ELSE [u |-> u, sock |-> s]

\* User::try_get() up to the call of Sock::try_get(): the socket is read
\* and an error of the read is pushed on errs.
User_suck(u, s, res, stream) ==
    LET r == suck(s, res, stream)
    IN  [u |-> IF r.ok THEN u ELSE [u EXCEPT !.errs = @ + 1],
         sock |-> r.sock, n |-> r.n]

\* No call on the socket yet, and a connection nothing was written to.
NoCall == [ op |-> "", kind |-> "", res |-> "", errs |-> 0,
            send_buff |-> << >>, current |-> << >> ]
NoWire == [ stream |-> << >>, msgs |-> << >>, got |-> << >>, last |-> NoCall ]

(***************************************************************************)
(* room.rs: the Room.                                                      *)
(***************************************************************************)
Room_new(id, new_name, creator_id) ==
    [ idn |-> id,
      name |-> new_name,
      idstr |-> ascollapse(new_name),
      users |-> << >>,
      op |-> creator_id,
      closed |-> FALSE,
      bans |-> << >>,
      invites |-> << >>,
      inbox |-> << >> ]

join(r, uid) == [r EXCEPT !.users = Append(@, uid)]
leave(r, uid) == [r EXCEPT !.users = Retain(@, uid)]
\* ban() that forgets the ban.
ban_forgetful(r, uid) == [r EXCEPT !.invites = Retain(@, uid)]
ban(r, uid) == [r EXCEPT !.invites = Retain(@, uid), !.bans = Append(@, uid)]
invite_forgetful(r, uid) == [r EXCEPT !.invites = Append(@, uid)]
invite(r, uid) == [r EXCEPT !.bans = Retain(@, uid), !.invites = Append(@, uid)]
set_op(r, uid) == [r EXCEPT !.op = uid]
is_banned_never(r, uid) == FALSE
is_banned(r, uid) == Contains(r.bans, uid)
is_invited(r, uid) == Contains(r.invites, uid)

(***************************************************************************)
(* greld.rs helpers.                                                       *)
(***************************************************************************)
RECURSIVE first_free_from(_, _)
first_free_from(map, n) ==
    IF n \in DOMAIN map THEN first_free_from(map, n + 1) ELSE n

first_free_id(map) == first_free_from(map, 0)

RECURSIVE gen_name(_, _)
gen_name(init_count, map) ==
    IF user_n(init_count) \notin DOMAIN map THEN user_n(init_count)
    ELSE gen_name(init_count + 1, map)

(***************************************************************************)
(* Envelopes (proto3.rs Env): source and destination End and the kind of   *)
(* message wrapped.  `turn` is history: 0 on an envelope made before the   *)
(* room-processing call now running, otherwise a number that grows from    *)
(* one dispatch of the call to the next.                                   *)
(***************************************************************************)
End_User(uid) == << "User", uid >>
End_Room(r) == << "Room", r >>
End_Server == << "Server", 0 >>
Env_new(from, to, what) ==
    [source |-> from, dest |-> to, what |-> what, turn |-> 0]

\* Ok(vec![..]): process_room() pushes the returned envelopes on envz.
Ok(st, envs) == [st EXCEPT !.envz = @ \o envs]
\* User::deliver_msg(): a message put on a user's socket at once.
deliver_msg(st, uid, what) ==
    [st EXCEPT !.direct = Append(@, << uid, what >>)]
\* Room::enqueue()
enqueue(r, env) == [r EXCEPT !.inbox = Append(@, env)]

(***************************************************************************)
(* The message handlers of greld.rs.  A handler takes the tables as a      *)
(* record st (the Context's umap, ustr, rmap, rstr, with envz and the      *)
(* messages delivered directly) with the Context's rid and uid, and        *)
(* returns them as it leaves them.  A handler that returns Err(..)         *)
(* part-way (the `?` and the explicit returns) keeps what it had changed   *)
(* up to there and yields no envelope.                                     *)
(***************************************************************************)
do_text(st, c_rid, c_uid) ==
    IF c_uid \notin DOMAIN st.umap THEN st
    ELSE Ok(st, << Env_new(End_User(c_uid), End_Room(c_rid), "text") >>)

\* do_priv() that finds the recipient among the users of the sender's room
\* only.
do_priv_local(st, c_rid, c_uid, who) ==
    LET to_tok == ascollapse(who)
        err == << Env_new(End_Server, End_User(c_uid), "err") >>
    IN
    IF c_uid \notin DOMAIN st.umap THEN st
    ELSE IF Len(to_tok) = 0 THEN Ok(st, err)
    ELSE IF to_tok \notin DOMAIN st.ustr THEN Ok(st, err)
    ELSE IF st.ustr[to_tok] \notin DOMAIN st.umap THEN st
    ELSE IF ~ Contains(st.rmap[c_rid].users, st.ustr[to_tok]) THEN Ok(st, err)
    ELSE Ok(st, << Env_new(End_Server, End_User(c_uid), "priv_echo"),
                   Env_new(End_User(c_uid), End_User(st.ustr[to_tok]), "priv") >>)
\* do_priv(): an Err for a name that is empty when collapsed or is no key of
\* ustr_map, else the echo to the sender and the Priv to the recipient.
do_priv(st, c_rid, c_uid, who) ==
    LET to_tok == ascollapse(who)
        err == << Env_new(End_Server, End_User(c_uid), "err") >>
    IN
    IF c_uid \notin DOMAIN st.umap THEN st
    ELSE IF Len(to_tok) = 0 THEN Ok(st, err)
    ELSE IF to_tok \notin DOMAIN st.ustr THEN Ok(st, err)
    ELSE IF st.ustr[to_tok] \notin DOMAIN st.umap THEN st
    ELSE Ok(st, << Env_new(End_Server, End_User(c_uid), "priv_echo"),
                   Env_new(End_User(c_uid), End_User(st.ustr[to_tok]), "priv") >>)

\* do_name() without the look-up of the new name in ustr.
do_name_unchecked(st, c_rid, c_uid, new_candidate) ==
    LET new_str == ascollapse(new_candidate)
        err == << Env_new(End_Server, End_User(c_uid), "err") >>
    IN
    IF Len(new_str) = 0 THEN Ok(st, err)
    ELSE IF byte_len(new_candidate) > ROSTER_WIDTH THEN Ok(st, err)
    ELSE IF c_uid \notin DOMAIN st.umap THEN st
    ELSE LET old_idstr == st.umap[c_uid].idstr
             mu == set_name(st.umap[c_uid], new_candidate)
         IN  Ok([st EXCEPT !.umap = MapInsert(@, c_uid, mu),
                           !.ustr = MapInsert(MapRemove(@, old_idstr),
                                              mu.idstr, c_uid)],
                << Env_new(End_Server, End_Room(c_rid), "name") >>)

\* do_name() that refuses every name whose collapsed form is a key of
\* ustr_map, the user's own included.
do_name_strict(st, c_rid, c_uid, new_candidate) ==
    LET new_str == ascollapse(new_candidate)
        err == << Env_new(End_Server, End_User(c_uid), "err") >>
    IN
    IF Len(new_str) = 0 THEN Ok(st, err)
    ELSE IF byte_len(new_candidate) > ROSTER_WIDTH THEN Ok(st, err)
    ELSE IF new_str \in DOMAIN st.ustr /\ st.ustr[new_str] \notin DOMAIN st.umap
         THEN st
    ELSE IF new_str \in DOMAIN st.ustr THEN Ok(st, err)
    ELSE IF c_uid \notin DOMAIN st.umap THEN st
    ELSE LET old_idstr == st.umap[c_uid].idstr
             mu == set_name(st.umap[c_uid], new_candidate)
         IN  Ok([st EXCEPT !.umap = MapInsert(@, c_uid, mu),
                           !.ustr = MapInsert(MapRemove(@, old_idstr),
                                              mu.idstr, c_uid)],
                << Env_new(End_Server, End_Room(c_rid), "name") >>)
\* do_name(): an Err for a name that is empty when collapsed, too long or
\* the idstr of another user; else the user is renamed and moved in ustr_map.
do_name(st, c_rid, c_uid, new_candidate) ==
    LET new_str == ascollapse(new_candidate)
        err == << Env_new(End_Server, End_User(c_uid), "err") >>
    IN
    IF Len(new_str) = 0 THEN Ok(st, err)
    ELSE IF byte_len(new_candidate) > ROSTER_WIDTH THEN Ok(st, err)
    ELSE IF new_str \in DOMAIN st.ustr /\ st.ustr[new_str] \notin DOMAIN st.umap
         THEN st                           \* ctxt.gumap(*ouid)? fails
    ELSE IF new_str \in DOMAIN st.ustr /\ st.ustr[new_str] # c_uid
         THEN Ok(st, err)                  \* "There is already a user named"
    ELSE IF c_uid \notin DOMAIN st.umap THEN st
    ELSE LET old_idstr == st.umap[c_uid].idstr
             mu == set_name(st.umap[c_uid], new_candidate)
         IN  Ok([st EXCEPT !.umap = MapInsert(@, c_uid, mu),
                           !.ustr = MapInsert(MapRemove(@, old_idstr),
                                              mu.idstr, c_uid)],
                << Env_new(End_Server, End_Room(c_rid), "name") >>)

do_join(st, c_rid, c_uid, room_name) ==
    LET collapsed == ascollapse(room_name)
        err == << Env_new(End_Server, End_User(c_uid), "err") >>
        info == << Env_new(End_Server, End_User(c_uid), "info") >>
    IN
    IF Len(collapsed) = 0 THEN Ok(st, err)
    ELSE IF byte_len(room_name) > ROSTER_WIDTH THEN Ok(st, err)
    ELSE
    LET known == collapsed \in DOMAIN st.rstr
        new_id == first_free_id(st.rmap)
        tgt_rid == IF known THEN st.rstr[collapsed] ELSE new_id
        \* the room is created and entered in both tables
        st1 == IF known THEN st
               ELSE [st EXCEPT
                        !.rstr = MapInsert(@, collapsed, new_id),
                        !.rmap = MapInsert(@, new_id,
                                     Room_new(new_id, room_name, c_uid))]
    IN
    IF c_uid \notin DOMAIN st1.umap THEN st1
    ELSE
    LET st1m == IF known THEN st1 ELSE deliver_msg(st1, c_uid, "info") IN
    IF tgt_rid \notin DOMAIN st1m.rmap THEN st1m
    ELSE
    LET targ_r == st1m.rmap[tgt_rid] IN
    IF tgt_rid = c_rid THEN Ok(st1m, info)       \* "You are already in"
    ELSE IF is_banned(targ_r, c_uid) THEN Ok(st1m, info)
                                                 \* "You are banned from"
    ELSE IF targ_r.closed /\ ~ is_invited(targ_r, c_uid) THEN Ok(st1m, info)
                                                 \* "... is closed."
    ELSE
    LET join_env == Env_new(End_Server, End_Room(tgt_rid), "join")
        leave_env == Env_new(End_Server, End_Room(tgt_rid), "leave")
        st2 == [st1m EXCEPT !.rmap[tgt_rid] = enqueue(join(@, c_uid), join_env)]
    IN
    IF c_rid \notin DOMAIN st2.rmap THEN st2
    ELSE Ok([st2 EXCEPT !.rmap[c_rid] = leave(@, c_uid)], << leave_env >>)

\* The user a name stands for in do_block, do_unblock and do_op:
\* 0 (no user id) when the name collapses to nothing or is not in ustr.
resolve(st, user_name) ==
    LET collapsed == ascollapse(user_name) IN
    IF Len(collapsed) = 0 THEN 0
    ELSE IF collapsed \notin DOMAIN st.ustr THEN 0
    ELSE st.ustr[collapsed]

do_block(st, c_rid, c_uid, user_name) ==
    LET collapsed == ascollapse(user_name)
        ouid == resolve(st, user_name)
    IN
    IF Len(collapsed) = 0
    THEN Ok(st, << Env_new(End_Server, End_User(c_uid), "err") >>)
    ELSE IF ouid = 0
    THEN Ok(st, << Env_new(End_Server, End_User(c_uid), "info") >>)
    ELSE IF ouid = c_uid
    THEN Ok(st, << Env_new(End_Server, End_User(c_uid), "err") >>)
    ELSE IF ouid \notin DOMAIN st.umap THEN st
    ELSE IF c_uid \notin DOMAIN st.umap THEN st
    ELSE LET mu == block_id(st.umap[c_uid], ouid) IN
         deliver_msg([st EXCEPT !.umap[c_uid] = mu], c_uid,
                     IF mu = st.umap[c_uid] THEN "err" ELSE "info")

do_unblock(st, c_rid, c_uid, user_name) ==
    LET collapsed == ascollapse(user_name)
        ouid == resolve(st, user_name)
    IN
    IF Len(collapsed) = 0
    THEN Ok(st, << Env_new(End_Server, End_User(c_uid), "err") >>)
    ELSE IF ouid = 0
    THEN Ok(st, << Env_new(End_Server, End_User(c_uid), "info") >>)
    ELSE IF ouid = c_uid
    THEN Ok(st, << Env_new(End_Server, End_User(c_uid), "err") >>)
    ELSE IF ouid \notin DOMAIN st.umap THEN st
    ELSE IF c_uid \notin DOMAIN st.umap THEN st
    ELSE LET mu == unblock_id(st.umap[c_uid], ouid) IN
         deliver_msg([st EXCEPT !.umap[c_uid] = mu], c_uid,
                     IF mu = st.umap[c_uid] THEN "err" ELSE "info")

do_logout(st, c_rid, c_uid) ==
    IF c_rid \notin DOMAIN st.rmap THEN st
    ELSE
    LET st1 == [st EXCEPT !.rmap[c_rid] = leave(@, c_uid)] IN
    IF c_uid \notin DOMAIN st1.umap THEN st1
    ELSE \* the user is told, and the leave notice goes to the room's inbox
         [deliver_msg(st1, c_uid, "logout") EXCEPT
             !.umap = MapRemove(@, c_uid),
             !.ustr = MapRemove(@, st.umap[c_uid].idstr),
             !.rmap[c_rid] = enqueue(@, Env_new(End_Server, End_Room(c_rid),
                                               "leave"))]

\* do_query(), "roster": the data of the reply.  The users of the room are
\* gone through from the last to the first, the op left out; the op's name
\* ("[ ??? ]" when user_map has no such user) is pushed last unless the op
\* is 0, and the list is turned round.
Reverse(v) == [i \in 1..Len(v) |-> v[Len(v) + 1 - i]]
UnknownName == << "?" >>
roster(st, c_rid) ==
    LET r == st.rmap[c_rid]
        others == SelectSeq(Reverse(r.users),
                            LAMBDA u : u # r.op /\ u \in DOMAIN st.umap)
        names_list == [i \in 1..Len(others) |-> st.umap[others[i]].name]
        op_name == IF r.op \in DOMAIN st.umap THEN st.umap[r.op].name
                   ELSE UnknownName
    IN  Reverse(IF r.op = 0 THEN names_list
                ELSE names_list \o << op_name >>)

\* do_query() that ends the connection of a client asking what it does not
\* know.
do_query_strict(st, c_rid, c_uid, what) ==
    IF what \in {"addr", "roster", "who", "rooms"}
    THEN Ok(st, << Env_new(End_Server, End_User(c_uid), what) >>)
    ELSE do_logout(st, c_rid, c_uid)
\* The Query's arg is taken to be empty, so "who" and "rooms" match every
\* name of their table.
do_query(st, c_rid, c_uid, what) ==
    LET to_user(w) == << Env_new(End_Server, End_User(c_uid), w) >> IN
    IF what = "addr"
    THEN IF c_uid \notin DOMAIN st.umap THEN st
         ELSE deliver_msg(st, c_uid, "addr")
    ELSE IF what = "roster"
    THEN IF c_rid \notin DOMAIN st.rmap THEN st
         ELSE Ok(st, to_user("roster"))
    ELSE IF what = "who"
    THEN Ok(st, to_user(IF DOMAIN st.ustr = {} THEN "info" ELSE "who"))
    ELSE IF what = "rooms"
    THEN Ok(st, to_user(IF DOMAIN st.rstr = {} THEN "info" ELSE "rooms"))
    ELSE Ok(st, to_user("err"))          \* "Unknown \"Query\" type"

\* do_op() after the operator check: the match on the Op.
do_op_match(st, c_rid, c_uid, op, arg) ==
    LET to_op(what) == << Env_new(End_Server, End_User(c_uid), what) >>
        to_room(what) == << Env_new(End_Server, End_Room(c_rid), what) >>
    IN
    IF c_uid \notin DOMAIN st.umap THEN st
    ELSE
    LET cur_r == st.rmap[c_rid]
        collapsed == ascollapse(arg)
        ouid == resolve(st, arg)
    IN
    CASE op = "Open"  ->
            IF cur_r.closed
            THEN Ok([st EXCEPT !.rmap[c_rid].closed = FALSE], to_room("info"))
            ELSE Ok(st, to_op("info"))
      [] op = "Close" ->
            IF cur_r.closed THEN Ok(st, to_op("info"))
            ELSE Ok([st EXCEPT !.rmap[c_rid].closed = TRUE], to_room("info"))
      [] op = "Give"  ->
            IF Len(collapsed) = 0 THEN Ok(st, to_op("err"))
            ELSE IF ouid = 0 \/ ouid = c_uid THEN Ok(st, to_op("info"))
            ELSE IF ouid \notin DOMAIN st.umap THEN st
            ELSE IF ~ Contains(cur_r.users, ouid) THEN Ok(st, to_op("info"))
            ELSE Ok([st EXCEPT !.rmap[c_rid] = set_op(@, ouid)],
                    to_room("info"))
      [] op = "Invite" ->
            IF ouid = 0 \/ ouid = c_uid THEN Ok(st, to_op("info"))
            ELSE IF ouid \notin DOMAIN st.umap THEN st
            ELSE IF is_invited(cur_r, ouid) THEN Ok(st, to_op("info"))
            ELSE Ok(deliver_msg([st EXCEPT !.rmap[c_rid] = invite(@, ouid)],
                                ouid, "info"),
                    to_op("info"))
      [] op = "Kick" ->
            IF ouid = 0 \/ ouid = c_uid THEN Ok(st, to_op("info"))
            ELSE IF ouid \notin DOMAIN st.umap THEN st
            ELSE IF is_banned(cur_r, ouid) THEN Ok(st, to_op("info"))
            ELSE IF ~ Contains(cur_r.users, ouid)
                 THEN Ok([st EXCEPT !.rmap[c_rid] = ban(@, ouid)],
                         to_op("info"))
            ELSE \* banned, told, taken out of the room and put into the
                 \* Lobby, whose inbox gets the join notice
                 LET st1 == deliver_msg(st, ouid, "info")
                     st2 == [st1 EXCEPT !.rmap[c_rid] = leave(ban(@, ouid), ouid)]
                     st3 == [st2 EXCEPT !.rmap[0] =
                                enqueue(join(@, ouid),
                                        Env_new(End_Server, End_Room(c_rid),
                                                "join"))]
                 IN  Ok(st3, to_room("kick_other"))

\* do_op() that takes every sender to be the operator.
do_op_unchecked(st, c_rid, c_uid, op, arg) ==
    IF c_rid \notin DOMAIN st.rmap THEN st
    ELSE do_op_match(st, c_rid, c_uid, op, arg)
do_op(st, c_rid, c_uid, op, arg) ==
    IF c_rid \notin DOMAIN st.rmap THEN st
    ELSE IF st.rmap[c_rid].op # c_uid
         THEN Ok(st, << Env_new(End_Server, End_User(c_uid), "err") >>)
                                         \* "You are not the operator"
    ELSE do_op_match(st, c_rid, c_uid, op, arg)

\* The match of process_room() on the decoded message.
dispatch(st, c_rid, c_uid, m) ==
    CASE m.type = "Text"    -> do_text(st, c_rid, c_uid)
      [] m.type = "Priv"    -> do_priv(st, c_rid, c_uid, m.arg)
      [] m.type = "Name"    -> do_name(st, c_rid, c_uid, m.arg)
      [] m.type = "Join"    -> do_join(st, c_rid, c_uid, m.arg)
      [] m.type = "Block"   -> do_block(st, c_rid, c_uid, m.arg)
      [] m.type = "Unblock" -> do_unblock(st, c_rid, c_uid, m.arg)
      [] m.type = "Logout"  -> do_logout(st, c_rid, c_uid)
      [] m.type = "Query"   -> do_query(st, c_rid, c_uid, m.op)
      [] m.type = "Op"      -> do_op(st, c_rid, c_uid, m.op, m.arg)
      [] OTHER              -> st

(***************************************************************************)
(* Inputs.  A message is [type, op, arg]; op is used by "Op" only.         *)
(***************************************************************************)
NoName == << >>
Msg(type, op, arg) == [type |-> type, op |-> op, arg |-> arg]
NoMsg == Msg("None", "", NoName)
NoEv == [kind |-> "none", rid |-> 0, uid |-> 0, tgt |-> 0, idstr |-> NoName,
         is_op |-> FALSE, tgt_in |-> FALSE, arg |-> NoName, by_op |-> FALSE,
         direct |-> << >>, over |-> FALSE, before |-> << >>, what |-> "",
         data |-> << >>]

OpKinds == {"Open", "Close", "Give", "Invite", "Kick"}

\* The messages a client may send: the types in `types`, with user names
\* from unames (and the names of the users present) and room names from
\* rnames.
Messages(types, unames, rnames) ==
    LET present == { umap[u].name : u \in DOMAIN umap }
        targets == unames \cup present
    IN  { Msg(t, "", NoName) : t \in types \cap {"Text", "Ping", "Logout"} }
        \cup { Msg(t, w, NoName) : t \in types \cap {"Query"},
                                   w \in {"addr", "roster", "bogus"} }
        \cup { Msg(t, "", n) : t \in types \cap {"Name"}, n \in unames }
        \cup { Msg(t, "", n) : t \in types \cap {"Priv", "Block", "Unblock"},
                               n \in targets }
        \cup { Msg(t, "", n) : t \in types \cap {"Join"}, n \in rnames }
        \cup { Msg("Op", o, NoName) : o \in types \cap {"Open", "Close"} }
        \cup { Msg("Op", o, n) : o \in types \cap {"Give", "Invite", "Kick"},
                                 n \in targets }

\* process_room(): what is done for a user no message was decoded from,
\* `since` being the time since its last_data_time.
idle_check_ping_first(since) ==
    IF since > BLACKOUT_TO_PING THEN "ping"
    ELSE IF since > BLACKOUT_TO_KICK THEN "kick"
    ELSE "none"
idle_check(since) ==
    IF since > BLACKOUT_TO_KICK THEN "kick"
    ELSE IF since > BLACKOUT_TO_PING THEN "ping"
    ELSE "none"

\* The idle-kick history.  The counts stop at MaxKicks.
NoWatch == [ logouts |-> EmptyMap, leaves |-> EmptyMap, last_msg |-> EmptyMap ]
RECURSIVE Kicked(_, _)
Kicked(w, us) ==
    IF us = << >> THEN w
    ELSE LET u == Head(us)
             Up(f) == MapInsert(f, u, IF u \in DOMAIN f
                                      THEN (IF f[u] < MaxKicks THEN f[u] + 1
                                            ELSE f[u])
                                      ELSE 1)
         IN  Kicked([w EXCEPT !.logouts = Up(@), !.leaves = Up(@)], Tail(us))
\* A specification keeps the idle-kick history when its inputs say so.
Watches(P) == "watch" \in DOMAIN P /\ P.watch

\* The turns of a tick: a user's byte quota is drained once in every turn
\* it gets in process_room()'s loop, and a turn may dispatch a message.
NoTurns == [ drained |-> EmptyMap, dispatched |-> EmptyMap ]
Count(f, u) == IF u \in DOMAIN f THEN f[u] ELSE 0
Turn(t, u, handled) ==
    [ drained |-> MapInsert(t.drained, u, Count(t.drained, u) + 1),
      dispatched |-> IF handled
                     THEN MapInsert(t.dispatched, u,
                                    Count(t.dispatched, u) + 1)
                     ELSE t.dispatched ]
\* A specification counts the turns when its inputs say so.
Tracks(P) == "turns" \in DOMAIN P /\ P.turns

(***************************************************************************)
(* The state after main() has set up its tables and spawned the listener.  *)
(* The Lobby is room 0 with operator 0; it is put into room_map only.      *)
(***************************************************************************)
Init ==
    /\ umap = EmptyMap
    /\ ustr = EmptyMap
    /\ rmap = MapInsert(EmptyMap, 0, leave(Room_new(0, LOBBY_NAME, 0), 0))
    /\ rstr = EmptyMap
    /\ pc = "loop"
    /\ now = 0
    /\ roomz = {}
    /\ rid = 0
    /\ uid_list = << >>
    /\ logouts = << >>
    /\ new_user_id = FIRST_USER_ID
    /\ chan = << >>
    /\ ev = NoEv
    /\ tick_kicks = {}
    /\ idle_fired = {}
    /\ errs_at_start = {}
    /\ throttle = EmptyMap
    /\ envz = << >>
    /\ dlog = << >>
    /\ sent = << >>
    /\ thesock = Sock_new
    /\ turns = NoTurns
    /\ watch = NoWatch
    /\ wire = NoWire

\* A step that is no delivery phase leaves nothing in the delivery logs.
NoDelivery == dlog' = << >> /\ sent' = << >>

(***************************************************************************)
(* listen(): a connection is accepted, the handshake reads the client's    *)
(* Name, and the new User is sent through the channel.  The listener runs  *)
(* in its own thread and shares nothing but the channel, which main() only *)
(* looks at in try_recv(): the send is taken at the moment main() can      *)
(* first see it, just before a try_recv().                                 *)
(***************************************************************************)
\* A handshake that takes whatever comes first for a Name.
initial_negotiation_lenient(u, first, n) == [ok |-> TRUE, u |-> set_name(u, n)]
\* initial_negotiation(): `first` is what blocking_get() returns, a message
\* type, "err" or "timeout"; only a Name, with payload n, is accepted.
initial_negotiation(u, first, n) ==
    IF first = "Name" THEN [ok |-> TRUE, u |-> set_name(u, n)]
    ELSE [ok |-> FALSE, u |-> u]

\* One pass of the loop of listen() over an accepted connection.  L.firsts
\* are the ways the handshake may go.  With L.thread the listener is taken
\* as the thread it is: it runs at any position of main(), and ev keeps what
\* it did with the connection.
Accept(L) ==
    /\ L.thread \/ pc = "recv"
    /\ UNCHANGED << thesock, wire, turns, watch >>
    /\ new_user_id < FIRST_USER_ID + L.max_users
    /\ \E n \in L.unames, first \in L.firsts :
          LET res == initial_negotiation(User_new(new_user_id, now), first, n)
          IN  /\ chan' = IF res.ok THEN Append(chan, res.u) ELSE chan
              /\ new_user_id' = IF res.ok THEN new_user_id + 1
                                ELSE new_user_id
              /\ ev' = IF ~ L.thread THEN ev
                       ELSE [NoEv EXCEPT
                                !.kind = IF first = "Name" THEN "handoff"
                                         ELSE "refused",
                                !.uid = new_user_id]
    /\ IF L.thread THEN UNCHANGED << dlog, sent >> ELSE NoDelivery
    /\ UNCHANGED << umap, ustr, rmap, rstr, pc, now, roomz, rid, uid_list,
                    logouts, tick_kicks, idle_fired, errs_at_start,
                    throttle, envz >>

Listen(unames, max_users) ==
    Accept([unames |-> unames, max_users |-> max_users, firsts |-> {"Name"},
            thread |-> FALSE])

(***************************************************************************)
(* main(): the top of the loop.  `now` is taken and the room ids are       *)
(* snapshot; the HashMap yields them in no particular order, so roomz is   *)
(* the set of ids still to come.  d is the time since the last tick began. *)
(***************************************************************************)
TickStart(deltas) ==
    /\ pc = "loop"
    /\ UNCHANGED << thesock, wire, watch >>
    /\ turns' = NoTurns
    /\ \E d \in deltas : now + d <= MaxTime /\ now' = now + d
    /\ roomz' = DOMAIN rmap
    /\ pc' = "rooms"
    /\ ev' = NoEv
    /\ tick_kicks' = {}
    /\ idle_fired' = {}
    /\ errs_at_start' = { u \in DOMAIN umap : has_errors(umap[u]) }
    /\ NoDelivery
    /\ UNCHANGED << umap, ustr, rmap, rstr, rid, uid_list, logouts,
                    new_user_id, chan, throttle, envz >>

\* Reaping that forgets the entry of rstr_map.
reap_half(st, r) ==
    IF r # 0 /\ r \in DOMAIN st.rmap /\ Len(st.rmap[r].users) = 0
    THEN [st EXCEPT !.rmap = MapRemove(@, r)]
    ELSE st
\* A main loop that reaps no room.
reap_never(st, r) == st
\* The main loop's reaping of the room just processed (rid # 0, no users).
reap(st, r) ==
    IF r # 0 /\ r \in DOMAIN st.rmap /\ Len(st.rmap[r].users) = 0
    THEN [st EXCEPT !.rstr = MapRemove(@, st.rmap[r].idstr),
                    !.rmap = MapRemove(@, r)]
    ELSE st

AfterRoom == IF roomz' = {} THEN "recv" ELSE "rooms"

\* process_room() is entered for the next room of the snapshot: the member
\* list is copied.
RoomBegin ==
    /\ pc = "rooms"
    /\ UNCHANGED << thesock, wire, turns, watch >>
    /\ \E r \in roomz :
          /\ roomz' = roomz \ {r}
          /\ rid' = r
          /\ IF r \in DOMAIN rmap
             THEN /\ uid_list' = rmap[r].users
                  /\ pc' = "members"
             ELSE /\ uid_list' = << >>       \* "Room doesn't exist."
                  /\ pc' = AfterRoom
    /\ logouts' = << >>
    /\ envz' = << >>
    /\ ev' = NoEv
    /\ NoDelivery
    /\ UNCHANGED << umap, ustr, rmap, rstr, now, new_user_id, chan,
                    tick_kicks, idle_fired, errs_at_start, throttle >>

\* process_room() that takes no user to be over its quota.
is_over_quota_never(mu) == FALSE
\* process_room(): over_quota, taken before the quota is drained.
is_over_quota(mu) == mu.quota_bytes > BYTE_LIMIT

throttle_of(uid) == IF uid \in DOMAIN throttle THEN throttle[uid] ELSE << >>

\* What try_get() may return for user u (whose quota has been drained):
\* P.faults allows socket errors, P.sizes are the sizes of the messages.
Outcomes(P, uid, u) ==
    { [res |-> r, msg |-> NoMsg, n |-> 0] : r \in {"empty", "partial"} }
    \cup { [res |-> "err", msg |-> NoMsg, n |-> 0] :
              x \in { y \in {1} : P.faults /\ u.errs < MaxErrs } }
    \cup { [res |-> "msg", msg |-> m, n |-> n] :
              m \in Messages(P.types, P.unames, P.rnames),
              n \in { k \in P.sizes : /\ u.quota_bytes + k <= MaxQuota
                                      /\ Len(throttle_of(uid)) < MaxNotices } }

(***************************************************************************)
(* The history field `turn` of the envelopes.  An envelope made in a       *)
(* dispatch gets a number above every number given before in the call;     *)
(* when the call returns the envelopes left in the inboxes become old (0). *)
(***************************************************************************)
Turns(st) ==
    { e.turn : e \in Range(st.envz) }
    \cup UNION { { e.turn : e \in Range(st.rmap[x].inbox) } : x \in DOMAIN st.rmap }
NextStamp(st) ==
    LET S == Turns(st) \cup {0} IN 1 + (CHOOSE m \in S : \A n \in S : n <= m)
StampFrom(v, n, k) ==
    [i \in 1..Len(v) |-> IF i > n THEN [v[i] EXCEPT !.turn = k] ELSE v[i]]
Stamp(old, new) ==
    LET k == NextStamp(old)
        was(x) == IF x \in DOMAIN old.rmap THEN Len(old.rmap[x].inbox) ELSE 0
    IN  [new EXCEPT
            !.envz = StampFrom(new.envz, Len(old.envz), k),
            !.rmap = [x \in DOMAIN new.rmap |->
                         [new.rmap[x] EXCEPT
                             !.inbox = StampFrom(new.rmap[x].inbox, was(x), k)]]]
Forget(rm) ==
    [x \in DOMAIN rm |->
        [rm[x] EXCEPT !.inbox = StampFrom(rm[x].inbox, 0, 0)]]
\* Where the envelopes are not looked at they are left out of the state.
Strip(st) ==
    [st EXCEPT !.envz = << >>,
               !.direct = << >>,
               !.rmap = [x \in DOMAIN st.rmap |->
                            [st.rmap[x] EXCEPT !.inbox = << >>]]]
Observe(P, old, new) == IF P.envs THEN Stamp(old, new) ELSE Strip(new)

(***************************************************************************)
(* process_room(): one turn of the loop over the member snapshot: quota,   *)
(* try_get(), the idle check, and the dispatch of the message.             *)
(***************************************************************************)
Member(P) ==
    /\ pc = "members"
    /\ UNCHANGED << thesock, wire >>
    /\ uid_list # << >>
    /\ LET uid == Head(uid_list) IN
       /\ uid_list' = Tail(uid_list)
       /\ IF uid \notin DOMAIN umap
          THEN \* "user doesn't exist": continue
               /\ ev' = NoEv
               /\ UNCHANGED << umap, ustr, rmap, rstr, logouts, tick_kicks,
                               throttle, envz, turns, watch >>
          ELSE \E r \in Outcomes(P, uid, drain_byte_quota(umap[uid], BYTE_TICK)) :
               LET mu0 == umap[uid]
                   over_quota == is_over_quota(mu0)
                   mu1 == drain_byte_quota(mu0, BYTE_TICK)
                   again == over_quota /\ mu1.quota_bytes <= BYTE_LIMIT
                   mu2 == try_get(mu1, r, now)
                   got == r.res = "msg"
                   \* current_time.checked_duration_since(last)
                   since == now - mu2.last_data_time
                   kick == ~ got /\ idle_check(since) = "kick"
                   ping == ~ got /\ idle_check(since) = "ping"
                   exceeded == got /\ ~ over_quota
                                   /\ mu2.quota_bytes > BYTE_LIMIT
                   handled == got /\ ~ over_quota
                   st0 == [umap |-> MapInsert(umap, uid, mu2), ustr |-> ustr,
                           rmap |-> rmap, rstr |-> rstr, envz |-> envz,
                           direct |-> << >>]
               IN
               \E st1 \in { IF handled
                            THEN Observe(P, st0, dispatch(st0, rid, uid, r.msg))
                            ELSE st0 } :
               LET tgt == resolve(st0, r.msg.arg)
                   is_kick == handled /\ r.msg.type = "Op" /\ r.msg.op = "Kick"
                   is_op == rid \in DOMAIN rmap /\ rmap[rid].op = uid
                   tgt_in == rid \in DOMAIN rmap /\ Contains(rmap[rid].users, tgt)
                   notices == (IF again THEN << "again" >> ELSE << >>)
                              \o (IF exceeded THEN << "exceeded" >> ELSE << >>)
               IN
               /\ \A x \in DOMAIN st1.rmap :
                      Len(st1.rmap[x].users) <= MaxMembers
               /\ umap' = st1.umap
               /\ ustr' = st1.ustr
               /\ rmap' = st1.rmap
               /\ rstr' = st1.rstr
               /\ envz' = st1.envz
               /\ turns' = IF Tracks(P) THEN Turn(turns, uid, handled)
                           ELSE turns
               /\ logouts' = IF kick THEN Append(logouts, uid) ELSE logouts
               /\ throttle' = IF notices = << >> THEN throttle
                              ELSE MapInsert(throttle, uid,
                                             throttle_of(uid) \o notices)
               /\ watch' = IF Watches(P) /\ got
                           THEN [watch EXCEPT
                                    !.last_msg = MapInsert(@, uid, now)]
                           ELSE watch
               /\ ev' = IF ~ got
                        THEN IF Watches(P)
                             THEN [NoEv EXCEPT
                                      !.kind = "silent", !.rid = rid,
                                      !.uid = uid,
                                      !.direct = IF ping
                                                 THEN << << uid, "ping" >> >>
                                                 ELSE << >>]
                             ELSE NoEv
                        ELSE IF ~ handled
                        THEN [NoEv EXCEPT !.kind = "dropped", !.rid = rid,
                                          !.uid = uid, !.over = TRUE,
                                          !.arg = r.msg.arg]
                        ELSE [kind |-> IF r.msg.type = "Op" THEN r.msg.op
                                       ELSE r.msg.type,
                              over |-> mu0.quota_bytes > BYTE_LIMIT,
                              rid |-> rid, uid |-> uid,
                              tgt |-> IF is_kick THEN tgt ELSE 0,
                              idstr |-> IF r.msg.type = "Logout" THEN mu0.idstr
                                        ELSE NoName,
                              is_op |-> is_kick /\ is_op,
                              tgt_in |-> is_kick /\ tgt_in,
                              arg |-> IF P.envs THEN r.msg.arg ELSE NoName,
                              by_op |-> P.envs /\ is_op,
                              direct |-> st1.direct,
                              what |-> IF P.envs THEN r.msg.op ELSE "",
                              \* the data of a roster reply
                              data |-> IF /\ P.envs
                                          /\ r.msg.type = "Query"
                                          /\ r.msg.op = "roster"
                                          /\ rid \in DOMAIN rmap
                                       THEN roster(st0, rid)
                                       ELSE << >>,
                              \* the list the Op is to take the user from
                              before |->
                                  IF ~ P.envs \/ rid \notin DOMAIN rmap
                                  THEN << >>
                                  ELSE IF r.msg.op = "Invite"
                                  THEN rmap[rid].bans
                                  ELSE IF r.msg.op = "Kick"
                                  THEN rmap[rid].invites
                                  ELSE << >>]
               /\ tick_kicks' = IF is_kick /\ is_op /\ tgt_in /\ tgt # uid
                                THEN tick_kicks \cup
                                     { << rid, tgt, Occurrences(rmap[rid].users, uid) >> }
                                ELSE tick_kicks
    /\ NoDelivery
    /\ UNCHANGED << pc, now, roomz, rid, new_user_id, chan, idle_fired,
                    errs_at_start >>

\* The promotion step that tells the room nothing.
promote_silent(st, r) ==
    IF r = 0 THEN st
    ELSE LET mr == st.rmap[r] IN
         IF Contains(mr.users, mr.op) THEN st
         ELSE IF Len(mr.users) = 0 THEN st
         ELSE IF mr.users[1] \notin DOMAIN st.umap THEN st
         ELSE [st EXCEPT !.rmap[r] = set_op(@, mr.users[1])]
\* The promotion step without the test for the Lobby.
promote_any(st, r) ==
    LET mr == st.rmap[r] IN
    IF Contains(mr.users, mr.op) THEN st
    ELSE IF Len(mr.users) = 0 THEN st
    ELSE IF mr.users[1] \notin DOMAIN st.umap THEN st
    ELSE Ok([st EXCEPT !.rmap[r] = set_op(@, mr.users[1])],
            << Env_new(End_Server, End_Room(r), "info") >>)
\* The promotion step: a room other than the Lobby whose op is not among
\* its users gets its first user as op, if that user is in user_map.
promote(st, r) ==
    IF r = 0 THEN st
    ELSE LET mr == st.rmap[r] IN
         IF Contains(mr.users, mr.op) THEN st
         ELSE IF Len(mr.users) = 0 THEN st
         ELSE IF mr.users[1] \notin DOMAIN st.umap THEN st
         ELSE Ok([st EXCEPT !.rmap[r] = set_op(@, mr.users[1])],
                 << Env_new(End_Server, End_Room(r), "info") >>)

\* User::deliver() without the look-up in blocks.
User_deliver_unfiltered(u, env) == TRUE
\* User::deliver(): TRUE when the envelope is put on the user's socket.
User_deliver(u, env) ==
    env.source[1] = "User" => ~ Contains(u.blocks, env.source[2])

\* Room::deliver() and one turn of deliver_inbox(): the <<user, envelope>>
\* that reach a socket, in order.
Room_deliver(r, env, uid_hash) ==
    LET takes(uid) == uid \in DOMAIN uid_hash /\ User_deliver(uid_hash[uid], env)
        to == IF env.dest[1] = "User" THEN << env.dest[2] >> ELSE r.users
        got == SelectSeq(to, takes)
    IN  [i \in 1..Len(got) |-> << got[i], env >>]

RECURSIVE deliver_all(_, _, _)
deliver_all(r, envs, uid_hash) ==
    IF envs = << >> THEN << >>
    ELSE Room_deliver(r, Head(envs), uid_hash)
         \o deliver_all(r, Tail(envs), uid_hash)

\* The delivery phase with the two steps exchanged.
delivery_envz_first(r, envs) == envs \o r.inbox
\* process_room(): the delivery phase hands out the room's inbox
\* (deliver_inbox), then the envelopes of this call, in this order.
delivery(r, envs) == r.inbox \o envs

(***************************************************************************)
(* process_room() after the loop: the idle users get their Logout message, *)
(* the operator is replaced, the envelopes are delivered and every user of *)
(* the room is nudged (a failed write pushes an error); then main() reaps  *)
(* the room.                                                               *)
(***************************************************************************)
RoomEnd(P) ==
    /\ pc = "members"
    /\ UNCHANGED << thesock, wire, turns >>
    /\ uid_list = << >>
    /\ LET st0 == [umap |-> umap, ustr |-> ustr, rmap |-> rmap, rstr |-> rstr,
                   envz |-> envz, direct |-> << >>]
           idle == SelectSeq(logouts, LAMBDA u : u \in DOMAIN umap)
           gone == [i \in 1..Len(idle) |->
                       Env_new(End_Server, End_Room(rid), "leave")]
       IN
       \E st1 \in { Observe(P, st0, promote(Ok(st0, gone), rid)) } :
       LET r == st1.rmap[rid]
           log == delivery(r, st1.envz)
           st1d == [st1 EXCEPT !.rmap[rid].inbox = << >>]
           nudged == { u \in Range(r.users) \cap DOMAIN umap :
                          P.faults /\ umap[u].errs < MaxErrs }
       IN  /\ \E F \in SUBSET nudged :
               LET st2 == [st1d EXCEPT !.umap =
                              [u \in DOMAIN @ |->
                                  IF u \in F THEN [@[u] EXCEPT !.errs = @ + 1]
                                  ELSE @[u]]]
                   st3 == reap(st2, rid)
               IN  /\ umap' = st3.umap
                   /\ ustr' = st3.ustr
                   /\ rmap' = Forget(st3.rmap)
                   /\ rstr' = st3.rstr
           /\ dlog' = log
           /\ sent' = deliver_all(r, log, st1.umap)
    /\ envz' = << >>
    /\ idle_fired' = idle_fired \cup (Range(logouts) \cap DOMAIN umap)
    /\ watch' = IF Watches(P)
                THEN Kicked(watch, SelectSeq(logouts,
                                             LAMBDA u : u \in DOMAIN umap))
                ELSE watch
    /\ logouts' = << >>
    /\ roomz' = roomz
    /\ pc' = AfterRoom
    /\ ev' = NoEv
    /\ UNCHANGED << now, rid, uid_list, new_user_id, chan, tick_kicks,
                    errs_at_start, throttle >>

(***************************************************************************)
(* main(): urecvr.try_recv().  At most one user is taken from the channel; *)
(* a user whose name is empty, too long or taken is renamed by gen_name(). *)
(***************************************************************************)
Admit(P) ==
    /\ pc = "recv"
    /\ UNCHANGED << thesock, wire, turns, watch >>
    /\ IF chan = << >>
       THEN /\ pc' = "loop"
            /\ UNCHANGED << umap, ustr, rmap, chan >>
       ELSE LET u == Head(chan)
                taken == u.idstr \in DOMAIN ustr
                rename == \/ Len(u.idstr) = 0
                          \/ byte_len(u.name) > ROSTER_WIDTH
                          \/ taken
                u1 == IF rename THEN set_name(u, gen_name(u.idn, ustr)) ELSE u
            IN  IF Len(u.idstr) # 0 /\ byte_len(u.name) <= ROSTER_WIDTH
                   /\ taken /\ ustr[u.idstr] \notin DOMAIN umap
                THEN \* user_map.get(user_n).unwrap() panics
                     /\ pc' = "panic"
                     /\ chan' = Tail(chan)
                     /\ UNCHANGED << umap, ustr, rmap >>
                ELSE /\ pc' = "loop"
                     /\ chan' = Tail(chan)
                     /\ rmap' = [rmap EXCEPT ![0] =
                                    IF P.envs
                                    THEN enqueue(join(@, u1.idn),
                                                 Env_new(End_Server,
                                                         End_Room(0), "join"))
                                    ELSE join(@, u1.idn)]
                     /\ ustr' = MapInsert(ustr, u1.idstr, u1.idn)
                     /\ umap' = MapInsert(umap, u1.idn, u1)
    /\ ev' = NoEv
    /\ NoDelivery
    /\ UNCHANGED << rstr, now, roomz, rid, uid_list, logouts, new_user_id,
                    tick_kicks, idle_fired, errs_at_start, throttle, envz >>

(***************************************************************************)
(* Spec: the room engine.  Clients move between rooms, log out and use the *)
(* operator commands Kick and Give; the ticks are short next to the        *)
(* blackout times and the messages small, so no user is throttled or found *)
(* idle.                                                                   *)
(***************************************************************************)
RoomNames == { << "r" >>, << "N", " " >> }
UserNames == { << "A", " " >> }

MainP == [ types |-> {"Text", "Join", "Logout", "Give", "Kick"},
           unames |-> {},
           rnames |-> RoomNames,
           sizes |-> {0},
           faults |-> FALSE,
          envs |-> FALSE ]

Next ==
    \/ Listen(UserNames, MaxUsers)
    \/ TickStart({0})
    \/ RoomBegin
    \/ Member(MainP)
    \/ RoomEnd(MainP)
    \/ Admit(MainP)

Spec == Init /\ [][Next]_vars

(***************************************************************************)
(* SpecOps: bans and invitations.  As Spec, with the operator commands     *)
(* Kick and Invite and without Logout and Give.                            *)
(***************************************************************************)
OpsP == [ types |-> {"Join", "Invite", "Kick"},
          unames |-> {},
          rnames |-> RoomNames,
          sizes |-> {0},
          faults |-> FALSE,
          envs |-> FALSE ]

NextOps ==
    \/ Listen(UserNames, MaxUsers)
    \/ TickStart({0})
    \/ RoomBegin
    \/ Member(OpsP)
    \/ RoomEnd(OpsP)
    \/ Admit(OpsP)

SpecOps == Init /\ [][NextOps]_vars

(***************************************************************************)
(* SpecNames: the two user tables.  Users arrive with names that collide   *)
(* once collapsed, with a blank name and with a name gen_name() would pick;*)
(* they rename themselves, move and log out.                               *)
(***************************************************************************)
HandshakeNames == { << "A", " " >>, << "a" >>, << " " >>, user_n(101) }
NameCandidates == { << "a" >>, << "B" >>, << " " >>, user_n(101) }

NamesP == [ types |-> {"Name", "Join", "Logout", "Kick"},
            unames |-> NameCandidates,
            rnames |-> { << "r" >> },
            sizes |-> {0},
            faults |-> FALSE,
          envs |-> FALSE ]

NextNames ==
    \/ Listen(HandshakeNames, MaxUsers)
    \/ TickStart({0})
    \/ RoomBegin
    \/ Member(NamesP)
    \/ RoomEnd(NamesP)
    \/ Admit(NamesP)

SpecNames == Init /\ [][NextNames]_vars

(***************************************************************************)
(* SpecIdle: silent and broken connections.  Ticks may be long, so a user  *)
(* that sends nothing passes the blackout times, and reads and writes on a *)
(* socket may fail.                                                        *)
(***************************************************************************)
IdleP == [ types |-> {"Text", "Logout"},
           unames |-> {},
           rnames |-> {},
           sizes |-> {0},
           faults |-> TRUE,
          envs |-> FALSE ]

NextIdle ==
    \/ Listen(UserNames, MaxUsers)
    \/ TickStart({0, BLACKOUT_TO_PING + 1})
    \/ RoomBegin
    \/ Member(IdleP)
    \/ RoomEnd(IdleP)
    \/ Admit(IdleP)

SpecIdle == Init /\ [][NextIdle]_vars

(***************************************************************************)
(* SpecQuota: throttling.  One user sends Text messages, small ones and    *)
(* ones larger than the byte limit.                                        *)
(***************************************************************************)
QuotaP == [ types |-> {"Text"},
            unames |-> {},
            rnames |-> {},
            sizes |-> {BYTE_TICK + BYTE_TICK, BYTE_LIMIT + BYTE_TICK + 2},
            faults |-> FALSE,
          envs |-> FALSE ]

NextQuota ==
    \/ Listen(UserNames, QuotaUsers)
    \/ TickStart({0})
    \/ RoomBegin
    \/ Member(QuotaP)
    \/ RoomEnd(QuotaP)
    \/ Admit(QuotaP)

SpecQuota == Init /\ [][NextQuota]_vars

(***************************************************************************)
(* SpecDrop: messages of a throttled user.  One user sends messages larger *)
(* than the byte limit: Text, Join and Logout.  The envelopes are part of  *)
(* the state.                                                              *)
(***************************************************************************)
DropP == [ types |-> {"Text", "Join", "Logout"},
           unames |-> {},
           rnames |-> { << "r" >> },
           sizes |-> {BYTE_LIMIT + BYTE_TICK + 2},
           faults |-> FALSE,
           envs |-> TRUE ]

NextDrop ==
    \/ Listen(UserNames, QuotaUsers)
    \/ TickStart({0})
    \/ RoomBegin
    \/ Member(DropP)
    \/ RoomEnd(DropP)
    \/ Admit(DropP)

SpecDrop == Init /\ [][NextDrop]_vars

(***************************************************************************)
(* SpecBlock: block lists and delivery.  The users stay in the Lobby, talk *)
(* to the room and to each other, and block and unblock each other.        *)
(***************************************************************************)
BlockP == [ types |-> {"Text", "Priv", "Block", "Unblock"},
            unames |-> {},
            rnames |-> {},
            sizes |-> {0},
            faults |-> FALSE,
            envs |-> TRUE ]

NextBlock ==
    \/ Listen(UserNames, MaxUsers)
    \/ TickStart({0})
    \/ RoomBegin
    \/ Member(BlockP)
    \/ RoomEnd(BlockP)
    \/ Admit(BlockP)

SpecBlock == Init /\ [][NextBlock]_vars

(***************************************************************************)
(* SpecMail: the order of delivery.  The users talk, move between the      *)
(* Lobby and one other room, and log out; the envelopes, the inboxes and   *)
(* what reaches each socket are part of the state.                         *)
(***************************************************************************)
MailP == [ types |-> {"Text", "Join", "Logout"},
           unames |-> {},
           rnames |-> { << "r" >> },
           sizes |-> {0},
           faults |-> FALSE,
           envs |-> TRUE ]

NextMail ==
    \/ Listen(UserNames, MaxUsers)
    \/ TickStart({0})
    \/ RoomBegin
    \/ Member(MailP)
    \/ RoomEnd(MailP)
    \/ Admit(MailP)

SpecMail == Init /\ [][NextMail]_vars

(***************************************************************************)
(* SpecDoor: the operator commands and the admission checks of Join.  The  *)
(* users move between the Lobby and one other room, which its operator     *)
(* closes and opens, and where users are invited, kicked and made          *)
(* operator; the envelopes are part of the state.                          *)
(***************************************************************************)
DoorP == [ types |-> {"Join", "Open", "Close", "Give", "Invite", "Kick"},
           unames |-> {},
           rnames |-> { << "r" >> },
           sizes |-> {0},
           faults |-> FALSE,
           envs |-> TRUE ]

NextDoor ==
    \/ Listen(UserNames, MaxUsers)
    \/ TickStart({0})
    \/ RoomBegin
    \/ Member(DoorP)
    \/ RoomEnd(DoorP)
    \/ Admit(DoorP)

SpecDoor == Init /\ [][NextDoor]_vars

(***************************************************************************)
(* SpecPair: Block(a) followed by Unblock(a).  PairUsers users are in the  *)
(* Lobby; the first two start with any sorted list of other users' ids as  *)
(* blocks.  A user sends Block with a name and then Unblock with the same  *)
(* name; ev keeps who sent them, the name, and the list before the Block.  *)
(***************************************************************************)
PairIds == FIRST_USER_ID .. (FIRST_USER_ID + PairUsers - 1)
PairNames == { user_n(i) : i \in PairIds } \cup { << " " >>, << "B" >> }

RECURSIVE Sorted(_)
Sorted(S) ==
    IF S = {} THEN << >>
    ELSE LET m == CHOOSE x \in S : \A y \in S : x <= y
         IN  << m >> \o Sorted(S \ {m})

InitPair ==
    /\ \E b0 \in SUBSET (PairIds \ {FIRST_USER_ID}),
          b1 \in SUBSET (PairIds \ {FIRST_USER_ID + 1}) :
           umap = [i \in PairIds |->
                      [User_new(i, 0) EXCEPT
                          !.blocks = IF i = FIRST_USER_ID THEN Sorted(b0)
                                     ELSE IF i = FIRST_USER_ID + 1
                                     THEN Sorted(b1)
                                     ELSE << >>]]
    /\ ustr = [n \in { ascollapse(user_n(i)) : i \in PairIds } |->
                  CHOOSE i \in PairIds : ascollapse(user_n(i)) = n]
    /\ rmap = MapInsert(EmptyMap, 0,
                        [leave(Room_new(0, LOBBY_NAME, 0), 0) EXCEPT
                            !.users = Sorted(PairIds)])
    /\ rstr = EmptyMap
    /\ pc = "pair"
    /\ now = 0
    /\ roomz = {}
    /\ rid = 0
    /\ uid_list = << >>
    /\ logouts = << >>
    /\ new_user_id = FIRST_USER_ID + PairUsers
    /\ chan = << >>
    /\ ev = NoEv
    /\ tick_kicks = {}
    /\ idle_fired = {}
    /\ errs_at_start = {}
    /\ throttle = EmptyMap
    /\ envz = << >>
    /\ dlog = << >>
    /\ sent = << >>
    /\ thesock = Sock_new
    /\ turns = NoTurns
    /\ watch = NoWatch
    /\ wire = NoWire

PairBlock ==
    /\ pc = "pair"
    /\ UNCHANGED << thesock, wire, turns, watch >>
    /\ \E U \in DOMAIN umap, a \in PairNames :
           LET st0 == [umap |-> umap, ustr |-> ustr, rmap |-> rmap,
                       rstr |-> rstr, envz |-> << >>, direct |-> << >>]
               st1 == do_block(st0, 0, U, a)
           IN  /\ umap' = st1.umap
               /\ ev' = [NoEv EXCEPT !.kind = "Block", !.uid = U, !.arg = a,
                                     !.tgt = resolve(st0, a),
                                     !.before = umap[U].blocks]
    /\ pc' = "paired"
    /\ UNCHANGED << ustr, rmap, rstr, now, roomz, rid, uid_list, logouts,
                    new_user_id, chan, tick_kicks, idle_fired, errs_at_start,
                    throttle, envz, dlog, sent >>

PairUnblock ==
    /\ pc = "paired"
    /\ UNCHANGED << thesock, wire, turns, watch >>
    /\ LET st0 == [umap |-> umap, ustr |-> ustr, rmap |-> rmap,
                   rstr |-> rstr, envz |-> << >>, direct |-> << >>]
           st1 == do_unblock(st0, 0, ev.uid, ev.arg)
       IN  /\ umap' = st1.umap
           /\ ev' = [ev EXCEPT !.kind = "Unblock"]
    /\ pc' = "pair"
    /\ UNCHANGED << ustr, rmap, rstr, now, roomz, rid, uid_list, logouts,
                    new_user_id, chan, tick_kicks, idle_fired, errs_at_start,
                    throttle, envz, dlog, sent >>

NextPair == PairBlock \/ PairUnblock

SpecPair == InitPair /\ [][NextPair]_vars

(***************************************************************************)
(* SpecListen: the listener thread and the channel.  Connections arrive at *)
(* any moment; their handshake succeeds or fails (a first message that is  *)
(* no Name, a read error, a timeout).  The users admitted log out again.   *)
(***************************************************************************)
ListenL == [ unames |-> HandshakeNames,
             max_users |-> MaxUsers,
             firsts |-> {"Name", "Text", "err", "timeout"},
             thread |-> TRUE ]

ListenP == [ types |-> {"Logout"},
             unames |-> {},
             rnames |-> {},
             sizes |-> {0},
             faults |-> FALSE,
             envs |-> FALSE ]

NextListen ==
    \/ Accept(ListenL)
    \/ TickStart({0})
    \/ RoomBegin
    \/ Member(ListenP)
    \/ RoomEnd(ListenP)
    \/ Admit(ListenP)

SpecListen == Init /\ [][NextListen]_vars

(***************************************************************************)
(* SpecRules: clients that break the rules.  They ask a Query the server   *)
(* does not know, take names and room names that are blank, too long or    *)
(* taken, give the operator's commands without being operator, and name    *)
(* users that do not exist.                                                *)
(***************************************************************************)
LongName == [i \in 1..(ROSTER_WIDTH + 1) |-> "a"]

RulesP == [ types |-> {"Query", "Name", "Join", "Priv", "Block", "Give"},
            unames |-> { << "a" >>, << "B" >>, << " " >>, LongName },
            rnames |-> { << "r" >>, << " " >>, LongName },
            sizes |-> {0},
            faults |-> FALSE,
            envs |-> TRUE ]

NextRules ==
    \/ Listen(UserNames, MaxUsers)
    \/ TickStart({0})
    \/ RoomBegin
    \/ Member(RulesP)
    \/ RoomEnd(RulesP)
    \/ Admit(RulesP)

SpecRules == Init /\ [][NextRules]_vars

(***************************************************************************)
(* SpecTurns: the turns of a tick.  Clients send Text, join rooms (the     *)
(* name "Lobby" among the names they ask for) and kick; the turns each     *)
(* user gets in a tick are counted.                                        *)
(***************************************************************************)
TurnsP == [ types |-> {"Text", "Join", "Kick"},
            unames |-> {},
            rnames |-> { << "r" >>, LOBBY_NAME },
            sizes |-> {0},
            faults |-> FALSE,
            envs |-> FALSE,
            turns |-> TRUE ]

NextTurns ==
    \/ Listen(UserNames, MaxUsers)
    \/ TickStart({0})
    \/ RoomBegin
    \/ Member(TurnsP)
    \/ RoomEnd(TurnsP)
    \/ Admit(TurnsP)

SpecTurns == Init /\ [][NextTurns]_vars

(***************************************************************************)
(* SpecWatch: SpecIdle with the idle-kick history kept: what is sent to a  *)
(* silent user in each of its turns, and how often it is logged out.       *)
(***************************************************************************)
WatchP == [ types |-> {"Text", "Logout"},
            unames |-> {},
            rnames |-> {},
            sizes |-> {0},
            faults |-> TRUE,
            envs |-> FALSE,
            watch |-> TRUE ]

NextWatch ==
    \/ Listen(UserNames, MaxUsers)
    \/ TickStart({0, BLACKOUT_TO_PING + 1})
    \/ RoomBegin
    \/ Member(WatchP)
    \/ RoomEnd(WatchP)
    \/ Admit(WatchP)

SpecWatch == Init /\ [][NextWatch]_vars

(***************************************************************************)
(* SpecRoster: clients ask for the roster of their room while others join  *)
(* rooms, leave them and log out.                                          *)
(***************************************************************************)
RosterP == [ types |-> {"Query", "Join", "Logout"},
             unames |-> {},
             rnames |-> RoomNames,
             sizes |-> {0},
             faults |-> FALSE,
             envs |-> TRUE ]

NextRoster ==
    \/ Listen(UserNames, MaxUsers)
    \/ TickStart({0})
    \/ RoomBegin
    \/ Member(RosterP)
    \/ RoomEnd(RosterP)
    \/ Admit(RosterP)

SpecRoster == Init /\ [][NextRoster]_vars

(***************************************************************************)
(* SpecTalk: Text between rooms.  Clients talk, join a room and kick; the  *)
(* envelopes and what reaches each socket are part of the state.           *)
(***************************************************************************)
TalkP == [ types |-> {"Text", "Join", "Kick"},
           unames |-> {},
           rnames |-> { << "r" >> },
           sizes |-> {0},
           faults |-> FALSE,
           envs |-> TRUE ]

NextTalk ==
    \/ Listen(UserNames, MaxUsers)
    \/ TickStart({0})
    \/ RoomBegin
    \/ Member(TalkP)
    \/ RoomEnd(TalkP)
    \/ Admit(TalkP)

SpecTalk == Init /\ [][NextTalk]_vars

(***************************************************************************)
(* SpecJoin: clients join rooms by name, the name of the room they are in  *)
(* and the name "Lobby" among them; the envelopes are part of the state.   *)
(***************************************************************************)
JoinP == [ types |-> {"Join", "Text"},
           unames |-> {},
           rnames |-> { << "r" >>, LOBBY_NAME },
           sizes |-> {0},
           faults |-> FALSE,
           envs |-> TRUE ]

NextJoin ==
    \/ Listen(UserNames, MaxUsers)
    \/ TickStart({0})
    \/ RoomBegin
    \/ Member(JoinP)
    \/ RoomEnd(JoinP)
    \/ Admit(JoinP)

SpecJoin == Init /\ [][NextJoin]_vars

(***************************************************************************)
(* SpecRename: users arrive with names that collide once collapsed and ask *)
(* for the names of others and for other spellings of their own; the       *)
(* envelopes are part of the state.                                        *)
(***************************************************************************)
RenameP == [ types |-> {"Name", "Join", "Logout"},
             unames |-> NameCandidates \cup { << "A", " " >> },
             rnames |-> { << "r" >> },
             sizes |-> {0},
             faults |-> FALSE,
             envs |-> TRUE ]

NextRename ==
    \/ Listen(HandshakeNames, MaxUsers)
    \/ TickStart({0})
    \/ RoomBegin
    \/ Member(RenameP)
    \/ RoomEnd(RenameP)
    \/ Admit(RenameP)

SpecRename == Init /\ [][NextRename]_vars

(***************************************************************************)
(* SpecSock: one user's socket.  The client has written the encodings of   *)
(* up to MaxFrames messages back to back; the server reads them in chunks  *)
(* of any size and decodes, and queues and writes bytes of its own.  Every *)
(* read and write may end in any outcome of a non-blocking TcpStream.      *)
(***************************************************************************)
RECURSIVE Concat(_)
Concat(ss) == IF ss = << >> THEN << >> ELSE Head(ss) \o Concat(Tail(ss))

Frames == UNION { [1..n -> SockMsgs] : n \in 0..MaxFrames }

SockUser == FIRST_USER_ID

InitSock ==
    /\ umap = MapInsert(EmptyMap, SockUser, User_new(SockUser, 0))
    /\ ustr = MapInsert(EmptyMap, ascollapse(user_n(SockUser)), SockUser)
    /\ rmap = MapInsert(EmptyMap, 0,
                        [leave(Room_new(0, LOBBY_NAME, 0), 0) EXCEPT
                            !.users = << SockUser >>])
    /\ rstr = EmptyMap
    /\ pc = "sock"
    /\ now = 0
    /\ roomz = {}
    /\ rid = 0
    /\ uid_list = << >>
    /\ logouts = << >>
    /\ new_user_id = FIRST_USER_ID + 1
    /\ chan = << >>
    /\ ev = NoEv
    /\ tick_kicks = {}
    /\ idle_fired = {}
    /\ errs_at_start = {}
    /\ throttle = EmptyMap
    /\ envz = << >>
    /\ dlog = << >>
    /\ sent = << >>
    /\ thesock = Sock_new
    /\ turns = NoTurns
    /\ watch = NoWatch
    /\ \E ms \in Frames :
           wire = [NoWire EXCEPT !.stream = Concat([i \in DOMAIN ms |->
                                                      bytes(ms[i])]),
                                 !.msgs = ms]

Call(op, kind, res) ==
    [ op |-> op, kind |-> kind, res |-> res, errs |-> umap[SockUser].errs,
      send_buff |-> thesock.send_buff, current |-> thesock.current ]

SockRest ==
    UNCHANGED << ustr, rmap, rstr, pc, now, roomz, rid, uid_list, logouts,
                 new_user_id, chan, ev, tick_kicks, idle_fired,
                 errs_at_start, throttle, envz, dlog, sent, turns,
                 watch >>

ReadOutcomes ==
    { [kind |-> "Ok", n |-> k, flush |-> TRUE] : k \in 1..Len(wire.stream) }
    \cup { [kind |-> k, n |-> 0, flush |-> TRUE] :
              k \in IF wire.stream = << >>
                    THEN {"WouldBlock", "Interrupted", "Other"}
                    ELSE {"Interrupted", "Other"} }

WriteOutcomes ==
    { [kind |-> "Ok", n |-> k, flush |-> b] :
          k \in 1..Len(thesock.send_buff), b \in BOOLEAN }
    \cup { [kind |-> k, n |-> 0, flush |-> TRUE] :
              k \in {"WouldBlock", "Interrupted", "Other"} }

\* The first half of User::try_get(): the socket is read.
SockSuck ==
    /\ pc = "sock"
    /\ \E res \in ReadOutcomes :
        \E r \in { User_suck(umap[SockUser], thesock, res, wire.stream) } :
           /\ r.u.errs <= MaxErrs
           /\ umap' = [umap EXCEPT ![SockUser] = r.u]
           /\ thesock' = r.sock
           /\ wire' = [wire EXCEPT
                          !.stream = SubSeq(@, r.n + 1, Len(@)),
                          !.last = Call("suck", res.kind, "")]
    /\ SockRest

\* Sock::try_get(), its error pushed on errs as User::try_get() does.
SockTryGet ==
    /\ pc = "sock"
    /\ \E r \in { Sock_try_get(thesock) } :
           /\ r.res # "err" \/ umap[SockUser].errs < MaxErrs
           /\ umap' = [umap EXCEPT ![SockUser].errs =
                                      IF r.res = "err" THEN @ + 1 ELSE @]
           /\ thesock' = r.sock
           /\ wire' = [wire EXCEPT
                          !.got = IF r.res = "some" THEN Append(@, r.msg)
                                  ELSE @,
                          !.last = Call("try_get", "", r.res)]
    /\ SockRest

\* User::deliver_msg(): the encoding of a message is queued for writing.
SockEnqueue ==
    /\ pc = "sock"
    /\ \E m \in { x \in SockMsgs : x.type = "Ping" } :
           /\ Len(thesock.send_buff) + Len(bytes(m)) <= MaxSendBuff
           /\ thesock' = Sock_enqueue(thesock, bytes(m))
           /\ wire' = [wire EXCEPT !.last = Call("enqueue", "", "")]
    /\ UNCHANGED umap
    /\ SockRest

\* User::nudge()
SockNudge ==
    /\ pc = "sock"
    /\ \E res \in WriteOutcomes :
        \E r \in { nudge(umap[SockUser], thesock, res) } :
           /\ r.u.errs <= MaxErrs
           /\ umap' = [umap EXCEPT ![SockUser] = r.u]
           /\ thesock' = r.sock
           /\ wire' = [wire EXCEPT !.last = Call("nudge", res.kind, "")]
    /\ SockRest

NextSock == SockSuck \/ SockTryGet \/ SockEnqueue \/ SockNudge

SpecSock == InitSock /\ [][NextSock]_vars

(***************************************************************************)
(* Properties of the room engine.                                          *)
(***************************************************************************)
TickEnd == pc = "loop"
RoomsOf(u) == { r \in DOMAIN rmap : Contains(rmap[r].users, u) }
KickOfMember ==
    ev.kind = "Kick" /\ ev.is_op /\ ev.tgt_in /\ ev.tgt # ev.uid
OneRoomEach ==
    \A u \in DOMAIN umap :
        /\ Cardinality(RoomsOf(u)) = 1
        /\ \A r \in RoomsOf(u) : Occurrences(rmap[r].users, u) = 1

\* C1: at the end of every tick every user of users_by_id is in the member
\* list of exactly one room.
C1_ExactlyOneRoom ==
    TickEnd => \A u \in DOMAIN umap : Cardinality(RoomsOf(u)) = 1

\* C2: when the idle kick has fired for a user, the user is, by the end of
\* the tick, in neither user table and in no room.
C2_IdleKickRemoves ==
    TickEnd =>
        \A u \in idle_fired :
            /\ u \notin DOMAIN umap
            /\ \A k \in DOMAIN ustr : ustr[k] # u
            /\ RoomsOf(u) = {}

\* C3: a user whose socket has accumulated an error when a tick begins has
\* been logged out and removed when that tick ends.
C3_ErrorsChecked ==
    TickEnd => \A u \in errs_at_start : u \notin DOMAIN umap

\* C4: after a Logout of user U has been dispatched, U is in neither user
\* table and in no room's member list.
C4_LogoutRemoves ==
    ev.kind = "Logout" =>
        /\ ev.uid \notin DOMAIN umap
        /\ ev.idstr \notin DOMAIN ustr
        /\ RoomsOf(ev.uid) = {}

C6_OpIsMember ==
    TickEnd => \A r \in DOMAIN rmap \ {0} : Contains(rmap[r].users, rmap[r].op)

\* C7: at the end of every tick the two user tables agree: every user of
\* users_by_id is entered in users_by_name under its idstr, and every entry
\* of users_by_name leads to a user of users_by_id that has this idstr.
C7_UserTablesAgree ==
    TickEnd =>
        /\ \A u \in DOMAIN umap :
              umap[u].idstr \in DOMAIN ustr /\ ustr[umap[u].idstr] = u
        /\ \A k \in DOMAIN ustr :
              ustr[k] \in DOMAIN umap /\ umap[ustr[k]].idstr = k
C7_Witness ==
    /\ TickEnd
    /\ \E u, v \in DOMAIN umap :
          /\ umap[u].idstr = << "b" >>
          /\ umap[v].name = user_n(v)

\* C8: every room of rooms_by_id, the Lobby included, is entered in
\* rooms_by_name under its idstr.
C8_RoomsByName ==
    \A r \in DOMAIN rmap :
        rmap[r].idstr \in DOMAIN rstr /\ rstr[rmap[r].idstr] = r

\* C9: no user id occurs twice in the member list of a room.
C9_NoDuplicateMember ==
    \A r \in DOMAIN rmap :
        \A i, j \in 1..Len(rmap[r].users) :
            i # j => rmap[r].users[i] # rmap[r].users[j]

\* C10: the throttle notices a user gets alternate strictly, the first one
\* being the quota-exceeded notice.
C10_NoticesAlternate ==
    \A u \in DOMAIN throttle :
        \A i \in 1..Len(throttle[u]) :
            throttle[u][i] = (IF i % 2 = 1 THEN "exceeded" ELSE "again")

\* C11: a message decoded from a user that was over its quota when its turn
\* began is discarded: the step changes no table, no room and no user's
\* name or block list, and adds no envelope.
C11_OverQuotaDiscarded ==
    [][ (ev'.kind # "none" /\ ev'.over) =>
           /\ ustr' = ustr /\ rmap' = rmap /\ rstr' = rstr
           /\ DOMAIN umap' = DOMAIN umap
           /\ \A u \in DOMAIN umap :
                  /\ umap'[u].name = umap[u].name
                  /\ umap'[u].idstr = umap[u].idstr
                  /\ umap'[u].blocks = umap[u].blocks
           /\ envz' = envz
           /\ ev'.direct = << >> ]_vars
C11_Witness ==
    ev.kind = "dropped" /\ ev.arg = << "r" >> /\ RoomsOf(ev.uid) = {0}

\* The users an envelope of the last delivery phase was addressed to.
Recipients(env) ==
    IF env.dest[1] = "User" THEN {env.dest[2]} \cap DOMAIN umap
    ELSE IF rid \in DOMAIN rmap THEN Range(rmap[rid].users) \cap DOMAIN umap
    ELSE {}

\* C12: an envelope whose source is User(s) is never put on the socket of a
\* user whose blocks contain s when it is delivered, and every envelope
\* whose source is the server reaches each user it was addressed to.
C12_BlockFilter ==
    /\ \A i \in DOMAIN sent :
           (sent[i][2].source[1] = "User" /\ sent[i][1] \in DOMAIN umap)
           => ~ Contains(umap[sent[i][1]].blocks, sent[i][2].source[2])
    /\ \A j \in DOMAIN dlog :
           dlog[j].source[1] = "Server"
           => \A u \in Recipients(dlog[j]) :
                  \E i \in DOMAIN sent : sent[i] = << u, dlog[j] >>
C12_Witness ==
    /\ \E j \in DOMAIN dlog :
           /\ dlog[j].source[1] = "User"
           /\ \E u \in Recipients(dlog[j]) :
                  /\ Contains(umap[u].blocks, dlog[j].source[2])
                  /\ \A i \in DOMAIN sent : sent[i] # << u, dlog[j] >>
    /\ \E j \in DOMAIN dlog :
           /\ dlog[j].source[1] = "Server"
           /\ \E u \in Recipients(dlog[j]) :
                  /\ umap[u].blocks # << >>
                  /\ \E i \in DOMAIN sent : sent[i] = << u, dlog[j] >>

\* C13: a user's last_data_time changes only in a turn whose try_get()
\* returned a decoded message of that user; bytes that complete no message
\* leave it alone.
C13_TimerOnlyOnMessage ==
    [][ \A u \in DOMAIN umap \cap DOMAIN umap' :
           umap'[u].last_data_time # umap[u].last_data_time
           => (ev'.kind # "none" /\ ev'.uid = u) ]_vars

\* C14: what one call of process_room() puts on a user's socket from the
\* envelopes its handlers made (turn > 0, the leave notice of a Logout
\* among them) is in the order in which the handlers made them.
C14_HandlerOrder ==
    \A i, j \in DOMAIN sent :
        (/\ i < j
         /\ sent[i][1] = sent[j][1]
         /\ sent[i][2].turn > 0
         /\ sent[j][2].turn > 0)
        => sent[i][2].turn <= sent[j][2].turn

\* C15: the delivery phase of a room hands out what was in the room's inbox
\* first and the envelopes collected from this call's handlers after it:
\* no envelope left by an earlier call (turn 0) follows one made in this
\* call, on the room's list and on every socket; the room's inbox is empty
\* afterwards.
C15_InboxFirst ==
    [][ (pc = "members" /\ pc' # "members") =>
           LET box == rmap[rid].inbox IN
           /\ Len(dlog') >= Len(box) + Len(envz)
           /\ SubSeq(dlog', 1, Len(box)) = box
           /\ SubSeq(dlog', Len(box) + 1, Len(box) + Len(envz)) = envz
           /\ \A i, j \in DOMAIN dlog' :
                  (i < j /\ dlog'[j].turn = 0) => dlog'[i].turn = 0
           /\ \A i, j \in DOMAIN sent' :
                  (i < j /\ sent'[j][2].turn = 0) => sent'[i][2].turn = 0
           /\ rid \in DOMAIN rmap' => rmap'[rid].inbox = << >> ]_vars
C15_Witness ==
    /\ rid # 0
    /\ rid \in DOMAIN rmap
    /\ rmap[rid].inbox = << >>
    /\ \E i, j \in DOMAIN sent :
           /\ i < j
           /\ sent[i][1] = sent[j][1]
           /\ sent[i][2].turn = 0
           /\ sent[j][2].turn > 0

\* The envelopes a step has pushed on envz, without the history field.
Pushed ==
    [i \in 1..(Len(envz') - Len(envz)) |->
        [envz'[Len(envz) + i] EXCEPT !.turn = 0]]

\* C16: an Op dispatched for a user that is not the op of the room being
\* processed changes no room (members, op, closed, bans, invites, inbox) and
\* no name table, and its only output is one Err for the sender; in the
\* Lobby every Op is such a one.
C16_OpByNonOp ==
    [][ (ev'.kind \in OpKinds /\ (~ ev'.by_op \/ ev'.rid = 0)) =>
           /\ rmap' = rmap /\ rstr' = rstr /\ ustr' = ustr
           /\ DOMAIN umap' = DOMAIN umap
           /\ SubSeq(envz', 1, Len(envz)) = envz
           /\ Pushed = << Env_new(End_Server, End_User(ev'.uid), "err") >>
           /\ ev'.direct = << >> ]_vars
C16_Witness ==
    /\ ev.kind \in OpKinds
    /\ ~ ev.by_op
    /\ ev.rid # 0
    /\ ev.rid \in DOMAIN rmap
    /\ Contains(rmap[ev.rid].users, ev.uid)
    /\ resolve([ustr |-> ustr], ev.arg) = rmap[ev.rid].op
    /\ ev.kind = "Kick"

\* C17: a Join for an existing room that has banned the user, or that is
\* closed and has not invited the user, changes no room's members and makes
\* one Info for the requester and nothing else.
C17_JoinRefused ==
    [][ (/\ ev'.kind = "Join"
         /\ ascollapse(ev'.arg) \in DOMAIN rstr
         /\ rstr[ascollapse(ev'.arg)] \in DOMAIN rmap
         /\ LET t == rmap[rstr[ascollapse(ev'.arg)]] IN
                \/ Contains(t.bans, ev'.uid)
                \/ t.closed /\ ~ Contains(t.invites, ev'.uid)) =>
           /\ \A x \in DOMAIN rmap :
                  x \in DOMAIN rmap' /\ rmap'[x].users = rmap[x].users
           /\ DOMAIN rmap' = DOMAIN rmap
           /\ SubSeq(envz', 1, Len(envz)) = envz
           /\ Pushed = << Env_new(End_Server, End_User(ev'.uid), "info") >>
           /\ ev'.direct = << >> ]_vars
\* The user whose Join was last dispatched asked for a room other than the
\* one it was in, and that room bans it, or is closed and has not invited it.
C17_Witness ==
    /\ ev.kind = "Join"
    /\ ascollapse(ev.arg) \in DOMAIN rstr
    /\ rstr[ascollapse(ev.arg)] \in DOMAIN rmap
    /\ rstr[ascollapse(ev.arg)] # ev.rid
    /\ LET t == rmap[rstr[ascollapse(ev.arg)]] IN
           /\ ~ Contains(t.users, ev.uid)
           /\ \/ Contains(t.bans, ev.uid)
              \/ t.closed /\ ~ Contains(t.invites, ev.uid)
    /\ Len(envz) > 0
    /\ envz[Len(envz)].what = "info"

\* C18: when user U has sent Block(a) and then Unblock(a), a another user,
\* U's blocks are what they were before the two messages, whatever they
\* were.
C18_BlockUnblock ==
    (pc = "pair" /\ ev.kind = "Unblock" /\ ev.tgt \notin {0, ev.uid})
    => umap[ev.uid].blocks = ev.before
\* C18, for a user a that U was not blocking before the two messages.
C18_BlockUnblockAmended ==
    (/\ pc = "pair" /\ ev.kind = "Unblock" /\ ev.tgt \notin {0, ev.uid}
     /\ ~ Contains(ev.before, ev.tgt))
    => umap[ev.uid].blocks = ev.before
C18_Witness ==
    /\ pc = "pair" /\ ev.kind = "Unblock" /\ ev.tgt \notin {0, ev.uid}
    /\ ~ Contains(ev.before, ev.tgt)
    /\ \E i, j \in DOMAIN ev.before :
           ev.before[i] < ev.tgt /\ ev.tgt < ev.before[j]
    /\ umap[ev.uid].blocks = ev.before

\* C19: in every room no user id is both in bans and in invites.
C19_BansInvitesDisjoint ==
    \A x \in DOMAIN rmap :
        Range(rmap[x].bans) \cap Range(rmap[x].invites) = {}
\* The operator has invited a user that was banned from the room.
C19_Witness ==
    /\ ev.kind = "Invite"
    /\ ev.by_op
    /\ ev.rid \in DOMAIN rmap
    /\ LET t == resolve([ustr |-> ustr], ev.arg) IN
           /\ Contains(ev.before, t)
           /\ Contains(rmap[ev.rid].invites, t)
           /\ ~ Contains(rmap[ev.rid].bans, t)

\* C20: room 0, the Lobby, is always in room_map and its op is 0.
C20_LobbyStays ==
    0 \in DOMAIN rmap /\ rmap[0].op = 0
\* A tick has ended with the Lobby empty while another room holds users.
C20_Witness ==
    /\ TickEnd
    /\ 0 \in DOMAIN rmap
    /\ rmap[0].users = << >>
    /\ \E x \in DOMAIN rmap \ {0} :
           rmap[x].op \in DOMAIN umap /\ Len(rmap[x].users) >= 2

\* C21: every entry (idstr, rid) of rstr_map names a room of room_map whose
\* idstr is that key.
C21_RoomTablesAgree ==
    \A n \in DOMAIN rstr :
        rstr[n] \in DOMAIN rmap /\ rmap[rstr[n]].idstr = n
\* A Join sent from another room has just created room 1 while room 2 is
\* there: the id of a reaped room is in use again.
C21_Witness ==
    /\ ev.kind = "Join"
    /\ ev.rid # 1
    /\ {1, 2} \subseteq DOMAIN rmap
    /\ rmap[1].users = << ev.uid >>
    /\ rmap[1].idstr \in DOMAIN rstr
    /\ rstr[rmap[1].idstr] = 1

\* C22: at the end of a tick every room but the Lobby has a member, and no
\* name of rstr_map stands for a room without members.
C22_NoEmptyRoom ==
    TickEnd =>
        /\ \A x \in DOMAIN rmap \ {0} : rmap[x].users # << >>
        /\ \A n \in DOMAIN rstr :
               rstr[n] \in DOMAIN rmap => rmap[rstr[n]].users # << >>
\* A tick has ended whose last room was reaped after its processing.
C22_Witness ==
    /\ TickEnd
    /\ rid # 0
    /\ rid \notin DOMAIN rmap
    /\ \A n \in DOMAIN rstr : rstr[n] # rid

\* C23: the ids of the users in the channel are at least 100, below the
\* listener's counter, strictly increasing, and above the id of every user
\* admitted; a handoff appends the user with the counter's id and advances
\* the counter by one; a connection whose handshake fails changes neither
\* the channel nor the counter; main() admits the head of the channel.
C23_HandoffOrder ==
    /\ [](/\ new_user_id >= FIRST_USER_ID
          /\ \A i \in DOMAIN chan :
                 /\ chan[i].idn >= FIRST_USER_ID
                 /\ chan[i].idn < new_user_id
                 /\ \A j \in DOMAIN chan : i < j => chan[i].idn < chan[j].idn
                 /\ \A u \in DOMAIN umap : u < chan[i].idn
          /\ \A u \in DOMAIN umap : u >= FIRST_USER_ID /\ umap[u].idn = u)
    /\ [][ /\ ev'.kind = "handoff" =>
                 /\ Len(chan') = Len(chan) + 1
                 /\ SubSeq(chan', 1, Len(chan)) = chan
                 /\ chan'[Len(chan')].idn = new_user_id
                 /\ new_user_id' = new_user_id + 1
           /\ ev'.kind = "refused" =>
                 chan' = chan /\ new_user_id' = new_user_id
           /\ new_user_id' # new_user_id => ev'.kind = "handoff"
           /\ DOMAIN umap' \ DOMAIN umap # {} =>
                 /\ chan # << >>
                 /\ DOMAIN umap' \ DOMAIN umap = { chan[1].idn }
                 /\ chan' = Tail(chan) ]_vars
\* A connection was refused after user 100 was admitted: the counter is
\* still 101 and the channel is empty.
C23_Witness ==
    /\ ev.kind = "refused"
    /\ ev.uid = FIRST_USER_ID + 1
    /\ FIRST_USER_ID \in DOMAIN umap
    /\ chan = << >>
    /\ new_user_id = FIRST_USER_ID + 1

\* The message just dispatched broke a rule: a Query of unknown type, a
\* name or room name that is blank or too long, a name another user has, an
\* Op from a user that is not the operator, a user name nobody has.
Violation ==
    LET k == ev'.kind
        a == ev'.arg
        c == ascollapse(a)
    IN  \/ k = "Query" /\ ev'.what \notin {"addr", "roster", "who", "rooms"}
        \/ k = "Name" /\ \/ Len(c) = 0
                         \/ byte_len(a) > ROSTER_WIDTH
                         \/ c \in DOMAIN ustr /\ ustr[c] # ev'.uid
        \/ k = "Join" /\ (Len(c) = 0 \/ byte_len(a) > ROSTER_WIDTH)
        \/ k \in OpKinds /\ ~ ev'.by_op
        \/ k \in {"Priv", "Block", "Unblock", "Give", "Invite", "Kick"}
           /\ c \notin DOMAIN ustr

\* C24: a message that breaks a rule is answered with Err or Info for its
\* sender and nothing else: the sender keeps its entries in user_map and
\* ustr_map and its name, no room and no table changes, and the sender is
\* not logged out.
C24_ViolationAnswered ==
    [][ Violation =>
           LET u == ev'.uid IN
           /\ DOMAIN umap' = DOMAIN umap
           /\ u \in DOMAIN umap'
           /\ umap'[u].name = umap[u].name
           /\ umap'[u].idstr = umap[u].idstr
           /\ ustr' = ustr /\ ustr[umap[u].idstr] = u
           /\ rmap' = rmap /\ rstr' = rstr
           /\ SubSeq(envz', 1, Len(envz)) = envz
           /\ \A i \in DOMAIN Pushed :
                  /\ Pushed[i].source = End_Server
                  /\ Pushed[i].dest = End_User(u)
                  /\ Pushed[i].what \in {"err", "info"}
           /\ \A i \in DOMAIN ev'.direct :
                  ev'.direct[i] \in { << u, "err" >>, << u, "info" >> }
           /\ Len(Pushed) + Len(ev'.direct) = 1 ]_vars
\* A Query of unknown type was answered with an Err.
C24_Witness ==
    /\ ev.kind = "Query"
    /\ ev.what = "bogus"
    /\ ev.uid \in DOMAIN umap
    /\ envz # << >>
    /\ envz[Len(envz)].what = "err"
    /\ envz[Len(envz)].dest = End_User(ev.uid)

(***************************************************************************)
(* Properties of one pass of process_room() over a room's members.         *)
(***************************************************************************)
\* C27: whenever process_room() hands a message of user uid to a handler
\* with Context{rid, uid}, uid is at that moment in the users of room rid.
C27_ContextMember ==
    [][ (/\ pc = "members"
         /\ uid_list # << >>
         /\ uid_list' = Tail(uid_list)
         /\ ev'.kind \notin {"none", "dropped"}
         /\ ev'.uid = Head(uid_list))
        => /\ rid \in DOMAIN rmap
           /\ Contains(rmap[rid].users, Head(uid_list)) ]_vars

\* C28: in one tick every user's byte quota is drained at most once and at
\* most one message of every user is dispatched.
C28_OneTurnPerTick ==
    /\ \A u \in DOMAIN turns.drained : turns.drained[u] <= 1
    /\ \A u \in DOMAIN turns.dispatched : turns.dispatched[u] <= 1

\* C29: no two rooms of rooms_by_id have the same normalized name (idstr).
C29_RoomNamesDistinct ==
    \A r1, r2 \in DOMAIN rmap :
        r1 # r2 => rmap[r1].idstr # rmap[r2].idstr

\* C30: at the end of every tick every id in a room's member list is a key
\* of users_by_id.
C30_MembersExist ==
    TickEnd =>
        \A r \in DOMAIN rmap :
            \A i \in 1..Len(rmap[r].users) : rmap[r].users[i] \in DOMAIN umap

(***************************************************************************)
(* Properties of the frame socket (SpecSock).                              *)
(***************************************************************************)
Enc(ms) == Concat([i \in DOMAIN ms |-> bytes(ms[i])])

\* C25: when a read (suck) or a write (blow, by nudge) on the socket ends in
\* would-block or interrupted, no error is pushed on the user's errs and
\* the bytes queued for writing are what they were before the call.
C25_WouldBlockNoError ==
    (/\ pc = "sock"
     /\ wire.last.op \in {"suck", "nudge"}
     /\ wire.last.kind \in {"WouldBlock", "Interrupted"})
    => /\ umap[SockUser].errs = wire.last.errs
       /\ thesock.send_buff = wire.last.send_buff

\* C26: whatever the chunks the encodings of the client's messages arrive
\* in, the messages try_get has returned are the first ones sent, in order;
\* the bytes decoded, buffered and still unread are together the bytes
\* sent; try_get never fails, returns None exactly when the buffer holds
\* less than the next message's encoding, and once everything is read and
\* returned the buffer is empty.
C26_FrameRoundTrip ==
    pc = "sock" =>
        /\ Len(wire.got) <= Len(wire.msgs)
        /\ wire.got = SubSeq(wire.msgs, 1, Len(wire.got))
        /\ Enc(wire.got) \o thesock.current \o wire.stream = Enc(wire.msgs)
        /\ wire.last.op = "try_get" =>
               /\ wire.last.res \in {"some", "none"}
               /\ LET k == IF wire.last.res = "some" THEN Len(wire.got)
                           ELSE Len(wire.got) + 1
                  IN  wire.last.res = "none" <=>
                         \/ k > Len(wire.msgs)
                         \/ Len(wire.last.current) < Len(bytes(wire.msgs[k]))
        /\ (wire.stream = << >> /\ Len(wire.got) = Len(wire.msgs))
               => thesock.current = << >>

\* Two different messages were sent, the first an object of three lines;
\* try_get has returned it out of a buffer that held more than it.
C26_Witness ==
    /\ pc = "sock"
    /\ Len(wire.msgs) = 2
    /\ wire.msgs[1].type = "Name"
    /\ wire.msgs[2] # wire.msgs[1]
    /\ wire.got = << wire.msgs[1] >>
    /\ wire.last.op = "try_get"
    /\ wire.last.res = "some"
    /\ thesock.current # << >>

(***************************************************************************)
(* Properties of the throttle, step by step.                               *)
(***************************************************************************)
\* C32: a turn in which the user's message is dropped because the user is
\* over its quota does not raise the user's byte quota.
C32_DroppedNoEffect ==
    [][ (/\ ev'.kind = "dropped"
         /\ ev'.uid \in DOMAIN umap
         /\ ev'.uid \in DOMAIN umap')
        => umap'[ev'.uid].quota_bytes <= umap[ev'.uid].quota_bytes ]_vars

(***************************************************************************)
(* Properties of the replies to single messages.                           *)
(***************************************************************************)
\* C33: the data of a roster reply are the names of the members of the
\* requester's room, each once: in a room other than the Lobby the op first
\* and then the others in the order they joined, in the Lobby all in the
\* order they joined.  (A roster changes no table, so the room is looked at
\* as the dispatch left it.)
C33_RosterIsMembers ==
    (ev.kind = "Query" /\ ev.what = "roster" /\ ev.rid \in DOMAIN rmap) =>
        LET r == rmap[ev.rid]
            order == IF r.idn # 0 /\ Contains(r.users, r.op)
                     THEN << r.op >> \o SelectSeq(r.users,
                                                  LAMBDA u : u # r.op)
                     ELSE r.users
        IN  /\ Len(ev.data) = Len(order)
            /\ \A i \in 1..Len(order) :
                   /\ order[i] \in DOMAIN umap
                   /\ ev.data[i] = umap[order[i]].name

\* C34: a Text of user U is addressed to the room being processed, whose
\* members get it at the end of the pass: U is a member of that room when
\* the Text is dispatched (do_text changes no table); and a Text delivered
\* reaches every member of the room that does not block its sender.
C34_TextInOwnRoom ==
    /\ (ev.kind = "Text" /\ ev.rid \in DOMAIN rmap) =>
           /\ envz # << >>
           /\ envz[Len(envz)].dest = End_Room(ev.rid)
           /\ Contains(rmap[ev.rid].users, ev.uid)
    /\ \A j \in DOMAIN dlog :
           dlog[j].what = "text" =>
               \A u \in Recipients(dlog[j]) :
                   Contains(umap[u].blocks, dlog[j].source[2])
                   \/ \E i \in DOMAIN sent : sent[i] = << u, dlog[j] >>

\* The step that ends a pass of process_room(): promotion, delivery, reaping.
EndOfPass == pc = "members" /\ uid_list = << >> /\ pc' # "members"

C36_JoinSameRoom ==
    [][ ( /\ ev'.kind = "Join"
          /\ \E x \in DOMAIN rmap :
                 /\ Contains(rmap[x].users, ev'.uid)
                 /\ rmap[x].idstr = ascollapse(ev'.arg) )
        => /\ rmap' = rmap
           /\ rstr' = rstr
           /\ ev'.direct = << >>
           /\ Len(Pushed) = 1
           /\ Pushed[1].what = "info"
           /\ Pushed[1].source = End_Server
           /\ Pushed[1].dest = End_User(ev'.uid) ]_vars

\* C37: a Priv whose recipient name collapses to a key of users_by_name that
\* leads to a user t pushes two envelopes, the priv_echo from the server to
\* the sender and the Priv from the sender to t, whatever rooms the two are
\* in; a name that is empty when collapsed or no key pushes one Err to the
\* sender.  At the end of the pass a Priv is put on the socket of its
\* recipient once unless the recipient blocks the sender, and on no other
\* socket.
C37_PrivToOne ==
    [][ /\ (ev'.kind = "Priv" /\ ev'.uid \in DOMAIN umap) =>
               LET to_tok == ascollapse(ev'.arg)
                   s == ev'.uid
               IN  IF Len(to_tok) = 0 \/ to_tok \notin DOMAIN ustr
                   THEN /\ Len(Pushed) = 1
                        /\ Pushed[1].what = "err"
                        /\ Pushed[1].source = End_Server
                        /\ Pushed[1].dest = End_User(s)
                   ELSE ustr[to_tok] \in DOMAIN umap =>
                        /\ Len(Pushed) = 2
                        /\ Pushed[1].what = "priv_echo"
                        /\ Pushed[1].source = End_Server
                        /\ Pushed[1].dest = End_User(s)
                        /\ Pushed[2].what = "priv"
                        /\ Pushed[2].source = End_User(s)
                        /\ Pushed[2].dest = End_User(ustr[to_tok])
        /\ EndOfPass =>
               \A j \in DOMAIN dlog' :
                   dlog'[j].what = "priv" =>
                       LET t == dlog'[j].dest[2]
                           takes == /\ t \in DOMAIN umap
                                    /\ ~ Contains(umap[t].blocks,
                                                   dlog'[j].source[2])
                           at == { k \in DOMAIN sent' :
                                       sent'[k][2] = dlog'[j] }
                       IN  /\ dlog'[j].dest[1] = "User"
                           /\ \A k \in at : sent'[k][1] = t
                           /\ Cardinality(at) = IF takes THEN 1 ELSE 0
      ]_vars

\* A pass has ended in which a Priv was put on the socket of a user that is
\* not the sender and is not among the users of the room of the pass, the
\* sender's room.
C37_Witness ==
    /\ pc # "members"
    /\ rid \in DOMAIN rmap
    /\ \E k \in DOMAIN sent :
           /\ sent[k][2].what = "priv"
           /\ sent[k][2].source[2] # sent[k][1]
           /\ Contains(rmap[rid].users, sent[k][2].source[2])
           /\ ~ Contains(rmap[rid].users, sent[k][1])

\* C38: a Name whose collapsed form is the idstr of another user of
\* users_by_id changes the name and the idstr of no user and neither the
\* keys of users_by_id nor users_by_name, and pushes one envelope, an Err to
\* the requester.  A Name that is not too long and whose collapsed form is
\* the requester's own idstr gives the requester the new name and leaves its
\* idstr and users_by_name as they were.
C38_NameCollision ==
    [][ (ev'.kind = "Name" /\ ev'.uid \in DOMAIN umap) =>
           LET s == ev'.uid
               new_str == ascollapse(ev'.arg)
           IN  /\ (\E v \in DOMAIN umap \ {s} : umap[v].idstr = new_str)
                   => /\ DOMAIN umap' = DOMAIN umap
                      /\ \A v \in DOMAIN umap :
                             /\ umap'[v].name = umap[v].name
                             /\ umap'[v].idstr = umap[v].idstr
                      /\ ustr' = ustr
                      /\ ev'.direct = << >>
                      /\ Len(Pushed) = 1
                      /\ Pushed[1].what = "err"
                      /\ Pushed[1].source = End_Server
                      /\ Pushed[1].dest = End_User(s)
               /\ ( /\ new_str = umap[s].idstr
                    /\ Len(new_str) > 0
                    /\ byte_len(ev'.arg) <= ROSTER_WIDTH )
                   => /\ umap'[s].name = ev'.arg
                      /\ umap'[s].idstr = umap[s].idstr
                      /\ ustr' = ustr
                      /\ Len(Pushed) = 1
                      /\ Pushed[1].what = "name" ]_vars

\* A Name has just been refused: the name asked for collapses to the idstr
\* of another user, and the last envelope is an Err to the requester, whose
\* name is not the one asked for.
C38_Witness ==
    /\ ev.kind = "Name"
    /\ ev.uid \in DOMAIN umap
    /\ umap[ev.uid].name # ev.arg
    /\ \E v \in DOMAIN umap \ {ev.uid} : umap[v].idstr = ascollapse(ev.arg)
    /\ envz # << >>
    /\ envz[Len(envz)].what = "err"
    /\ envz[Len(envz)].dest = End_User(ev.uid)

(***************************************************************************)
(* Properties of the admission step (SpecListen).                          *)
(***************************************************************************)
\* C39: the admission step of a tick empties the channel: every user that
\* was in it is afterwards a key of users_by_id, has its idstr in
\* users_by_name, and the users were appended to the Lobby's users in the
\* order of the channel.
C39_AllAdmitted ==
    [][ (pc = "recv" /\ pc' = "loop") =>
           /\ chan' = << >>
           /\ \A i \in DOMAIN chan :
                  /\ chan[i].idn \in DOMAIN umap'
                  /\ umap'[chan[i].idn].idstr \in DOMAIN ustr'
                  /\ ustr'[umap'[chan[i].idn].idstr] = chan[i].idn
           /\ rmap'[0].users
                  = rmap[0].users \o [i \in DOMAIN chan |-> chan[i].idn]
      ]_vars

(***************************************************************************)
(* Properties of the idle check (SpecWatch).                               *)
(***************************************************************************)
\* C31: a user that is idle-kicked gets one Logout message and its room one
\* leave notice for it, in all; later ticks make no second one.
C31_KickedOnce ==
    /\ \A u \in DOMAIN watch.logouts : watch.logouts[u] = 1
    /\ \A u \in DOMAIN watch.leaves : watch.leaves[u] = 1

\* C40: in a turn in which no message was decoded from the user, the user is
\* marked for the idle kick and gets no Ping when the time since its
\* last_data_time is above BLACKOUT_TO_KICK, gets one Ping and is not marked
\* when it is above BLACKOUT_TO_PING only, and gets nothing otherwise; and
\* no user is marked within BLACKOUT_TO_KICK of its last decoded message.
C40_IdleCheck ==
    /\ (ev.kind = "silent" /\ ev.uid \in DOMAIN umap) =>
           LET since == now - umap[ev.uid].last_data_time
               marked == Contains(logouts, ev.uid)
           IN  /\ since > BLACKOUT_TO_KICK => marked /\ ev.direct = << >>
               /\ (since <= BLACKOUT_TO_KICK /\ since > BLACKOUT_TO_PING)
                      => ~ marked /\ ev.direct = << << ev.uid, "ping" >> >>
               /\ since <= BLACKOUT_TO_PING => ~ marked /\ ev.direct = << >>
    /\ \A u \in Range(logouts) \cup idle_fired :
           u \in DOMAIN watch.last_msg
           => now - watch.last_msg[u] > BLACKOUT_TO_KICK

\* A user that once sent a message has been silent long enough and is
\* marked for the idle kick in this turn.
C40_Witness ==
    /\ ev.kind = "silent"
    /\ Contains(logouts, ev.uid)
    /\ ev.uid \in DOMAIN watch.last_msg

====
